---- MODULE Spec2Model ----
(***************************************************************************)
(* A model of the aggregation and data-model layer of the OpenQuake        *)
(* engine (openquake/engine/db/models.py) and of the Bindi et al. (2014)   *)
(* ground-motion prediction equation (openquake/hazardlib/gsim/            *)
(* bindi_2014.py).                                                         *)
(*                                                                         *)
(* The module holds one state machine per component.  Every component has  *)
(* its own variables, its own initial predicate and next-state relation    *)
(* and its own specification; the variables of the other components stay   *)
(* at their idle values.                                                   *)
(*                                                                         *)
(*   SpecCurves   build_curves over hzrdr.assoc_lt_rlz_trt_model           *)
(*   SpecHash     output_hash / data_hash of the risk result tables        *)
(*   SpecAssets   AssetManager.get_asset_chunk                             *)
(*   SpecGmf      SES.__iter__ and Gmf.by_rupture                          *)
(*   SpecGmfExport  Gmf.iternew and Gmf.__iter__                           *)
(*   SpecBindi    the terms of the Bindi et al. (2014) GMPE                *)
(*   SpecBindiMean  get_mean_and_stddevs and the site amplification term   *)
(*   SpecParam    OqJob.get_param                                          *)
(*   SpecRisk     RiskCalculation.hazard_outputs                           *)
(*   SpecRupture  the corner properties of ProbabilisticRupture            *)
(*   SpecValue    ExposureData.per_asset_value                             *)
(*   SpecFractions  LossFraction.total_fractions and iteritems             *)
(*   SpecCompare  loss_curve_almost_equal                                  *)
(*   SpecWriter   LossCurveDBWriter.serialize and LossMapDBWriter.serialize *)
(*   SpecImt      Imt.save_new in concurrent worker processes              *)
(*   SpecSaveParam  OqJob.save_param, save_params and get_param            *)
(*   SpecQuerysetIter  queryset_iter, with a consumer that keeps asking    *)
(*   SpecScenario  get_gmfs_scenario                                       *)
(*   SpecNrml     HazardCurveXMLWriter.write and close                     *)
(*                                                                         *)
(* Real numbers are exact: probabilities are rationals <<num, den>>,       *)
(* magnitudes are counted in quarters, rakes in tenths of a degree.        *)
(* IEEE-754 rounding is not modelled.                                      *)
(***************************************************************************)
EXTENDS Integers, Sequences, FiniteSets, TLC

(***************************************************************************)
(* The state.                                                              *)
(*                                                                         *)
(* Hazard curve combiner                                                   *)
(*   assoc_lt_rlz_trt_model  the table hzrdr.assoc_lt_rlz_trt_model: rows  *)
(*                           [id, rlz, trt_model_id, gsim]                 *)
(*   built                   the last call of build_curves                 *)
(* Output identity hashing: two runs, each with its own database           *)
(*   result_kind             the kind of result both runs persist          *)
(*   seq_start               per run, the ids its sequences have used up   *)
(*   hazard_output           per run, the hazard Output rows               *)
(*   output                  per run, the risk Output rows                 *)
(*   risk_container          per run, the rows of riskr.loss_curve,        *)
(*                           loss_map, loss_fraction, event_loss or        *)
(*                           bcr_distribution                              *)
(*   risk_data               per run, the detail rows of the container     *)
(*   run_ses_rupture         per run, the rows [id, tag] of                *)
(*                           hzrdr.ses_rupture                             *)
(* Asset chunks                                                            *)
(*   exposure_data           the rows of riski.exposure_data               *)
(*   asset_chunks            the get_asset_chunk queries answered so far,  *)
(*                           each with its arguments and the ids returned  *)
(* Ground motion fields                                                    *)
(*   ses_collection          the rows of hzrdr.ses_collection of the job   *)
(*   probabilistic_rupture   the rows of hzrdr.probabilistic_rupture       *)
(*   ses_rupture             the rows of hzrdr.ses_rupture                 *)
(*   gmf_data                the rows of hzrdr.gmf_data of the Gmf         *)
(*   gmf_call                the last iteration run to its end: SES        *)
(*                           .__iter__, Gmf.by_rupture, Gmf.iternew or     *)
(*                           Gmf.__iter__, with what it yielded            *)
(* Job parameters                                                          *)
(*   job_param               the rows of uiapi.job_param                   *)
(*   get_param_call          the last call of OqJob.get_param              *)
(* Risk calculation                                                        *)
(*   risk_calculation        the RiskCalculation row                       *)
(*   output_set              the rows of uiapi.output of the hazard jobs   *)
(*   hazard_outputs_call     the last call of hazard_outputs               *)
(* Rupture corners                                                         *)
(*   rupture_row             a ProbabilisticRupture and its cached _geom   *)
(*   corner_call             the last read of a corner property            *)
(* Asset value                                                             *)
(*   asset_args              the arguments of per_asset_value              *)
(*   per_asset_value_call    the last call of per_asset_value              *)
(* Loss fractions                                                          *)
(*   loss_fraction           the LossFraction row                          *)
(*   loss_fraction_data      the rows of riskr.loss_fraction_data          *)
(*   fractions_call          the last call of total_fractions or iteritems *)
(* Approximate equality of loss curves                                     *)
(*   computed_curve          the curve that is compared                    *)
(*   expected_curve          the curve it is compared with                 *)
(*   almost_equal_call       the last call of loss_curve_almost_equal      *)
(* Risk output writers                                                     *)
(*   writer_data             the writer and the argument of serialize      *)
(*   output_rows             the output rows of the job                    *)
(*   loss_map_table          the loss map rows of the output               *)
(*   detail_rows             the detail rows, in the order of insertion    *)
(*   inserted_data           the records read back, once they are          *)
(* Intensity measure types                                                 *)
(*   imt_rows                the rows of the table hzrdi.imt               *)
(*   stored_imts             Imt.stored_imts of every worker process       *)
(*   save_new_todo           the running call of save_new of every worker  *)
(*   save_new_done           the imt_str passed to completed calls         *)
(*   imt_str_unique          whether the schema makes imt_str unique       *)
(* Saving job parameters (with the job parameters)                         *)
(*   saved_param             the value of the last save_param of a job and name*)
(* Chunked iteration                                                       *)
(*   iter_queryset           the rows of the queryset, in its order        *)
(*   iter_chunk_size         the argument chunk_size                       *)
(*   iter_offset             the local variable offset                     *)
(*   iter_chunks             the chunks yielded so far                     *)
(*   iter_state              running, or stopped once StopIteration is raised*)
(* Scenario export                                                         *)
(*   scenario_site           the location of every hazard site             *)
(*   scenario_gmf_data       the gmf_data row of every site                *)
(*   scenario_call           the last call of get_gmfs_scenario            *)
(* Hazard curve XML writer                                                 *)
(*   result_list_tag         the elements under <HazardResult>             *)
(*   curves_per_iml          the <HazardCurve> of every IML values key     *)
(*   curves_per_model_id     the <Values> of every IDmodel                 *)
(*   write_calls             the calls of write, in order                  *)
(*   nrml_file               what close wrote, Nothing before              *)
(* GMPE evaluator, the mean                                                *)
(*   gmpe                    the GMPE class: its kind, sof and dist_type   *)
(*   imt                     the intensity measure type asked for          *)
(*   sctx                    the sites: the array vs30                     *)
(*   dctx                    the distances: an array per distance type     *)
(* GMPE evaluator                                                          *)
(*   rup                     the rupture: [mag, rake]                      *)
(*   coeffs                  the coefficient row C of the IMT              *)
(*   gmpe_out                the last term evaluated                       *)
(***************************************************************************)
VARIABLES assoc_lt_rlz_trt_model, built

VARIABLES rup, coeffs, gmpe_out

VARIABLES result_kind, seq_start, hazard_output, output, risk_container,
          risk_data, run_ses_rupture

VARIABLES exposure_data, asset_chunks

VARIABLES ses_collection, probabilistic_rupture, ses_rupture, gmf_data,
          gmf_call

VARIABLES gmpe, imt, sctx, dctx

VARIABLES job_param, get_param_call

VARIABLES risk_calculation, output_set, hazard_outputs_call

VARIABLES rupture_row, corner_call

VARIABLES asset_args, per_asset_value_call

VARIABLES loss_fraction, loss_fraction_data, fractions_call

VARIABLES computed_curve, expected_curve, almost_equal_call

VARIABLES writer_data, output_rows, loss_map_table, detail_rows, inserted_data

VARIABLES imt_rows, stored_imts, save_new_todo, save_new_done, imt_str_unique

VARIABLES saved_param

VARIABLES iter_queryset, iter_chunk_size, iter_offset, iter_chunks, iter_state

VARIABLES scenario_site, scenario_gmf_data, scenario_call

VARIABLES result_list_tag, curves_per_iml, curves_per_model_id, write_calls,
          nrml_file

varsCurves == <<assoc_lt_rlz_trt_model, built>>

varsBindi == <<rup, coeffs, gmpe_out>>

varsHash == <<result_kind, seq_start, hazard_output, output, risk_container,
              risk_data, run_ses_rupture>>

varsAssets == <<exposure_data, asset_chunks>>

varsGmf == <<ses_collection, probabilistic_rupture, ses_rupture, gmf_data,
             gmf_call>>

varsMean == <<gmpe, imt, sctx, dctx>>

varsParam == <<job_param, get_param_call>>

varsRisk == <<risk_calculation, output_set, hazard_outputs_call>>

varsRupture == <<rupture_row, corner_call>>

varsValue == <<asset_args, per_asset_value_call>>

varsFractions == <<loss_fraction, loss_fraction_data, fractions_call>>

varsCompare == <<computed_curve, expected_curve, almost_equal_call>>

varsWriter == <<writer_data, output_rows, loss_map_table, detail_rows,
                inserted_data>>

varsImt == <<imt_rows, stored_imts, save_new_todo, save_new_done,
             imt_str_unique>>

varsSaveParam == <<saved_param>>

varsQuerysetIter == <<iter_queryset, iter_chunk_size, iter_offset,
                      iter_chunks, iter_state>>

varsScenario == <<scenario_site, scenario_gmf_data, scenario_call>>

varsNrml == <<result_list_tag, curves_per_iml, curves_per_model_id,
              write_calls, nrml_file>>

vars == <<varsCurves, varsBindi, varsHash, varsAssets, varsGmf, varsMean,
          varsParam, varsRisk, varsRupture, varsValue, varsFractions,
          varsCompare, varsWriter, varsImt, varsSaveParam, varsQuerysetIter,
          varsScenario, varsNrml>>

\* What the actions of a component leave alone: the other components.
frameCurves == <<varsBindi, varsHash, varsAssets, varsGmf, varsMean,
                 varsParam, varsRisk, varsRupture, varsValue, varsFractions,
                 varsCompare, varsWriter, varsImt, varsSaveParam,
                 varsQuerysetIter, varsScenario, varsNrml>>

frameBindi == <<varsCurves, varsHash, varsAssets, varsGmf, varsMean,
                varsParam, varsRisk, varsRupture, varsValue, varsFractions,
                varsCompare, varsWriter, varsImt, varsSaveParam,
                varsQuerysetIter, varsScenario, varsNrml>>

frameHash == <<varsCurves, varsBindi, varsAssets, varsGmf, varsMean,
               varsParam, varsRisk, varsRupture, varsValue, varsFractions,
               varsCompare, varsWriter, varsImt, varsSaveParam,
               varsQuerysetIter, varsScenario, varsNrml>>

frameAssets == <<varsCurves, varsBindi, varsHash, varsGmf, varsMean,
                 varsParam, varsRisk, varsRupture, varsValue, varsFractions,
                 varsCompare, varsWriter, varsImt, varsSaveParam,
                 varsQuerysetIter, varsScenario, varsNrml>>

frameGmf == <<varsCurves, varsBindi, varsHash, varsAssets, varsMean,
              varsParam, varsRisk, varsRupture, varsValue, varsFractions,
              varsCompare, varsWriter, varsImt, varsSaveParam,
              varsQuerysetIter, varsScenario, varsNrml>>

frameMean == <<varsCurves, varsHash, varsAssets, varsGmf, varsParam, varsRisk,
               varsRupture, varsValue, varsFractions, varsCompare, varsWriter,
               varsImt, varsSaveParam, varsQuerysetIter, varsScenario,
               varsNrml>>

frameParam == <<varsCurves, varsBindi, varsHash, varsAssets, varsGmf,
                varsMean, varsRisk, varsRupture, varsValue, varsFractions,
                varsCompare, varsWriter, varsImt, varsSaveParam,
                varsQuerysetIter, varsScenario, varsNrml>>

frameRisk == <<varsCurves, varsBindi, varsHash, varsAssets, varsGmf, varsMean,
               varsParam, varsRupture, varsValue, varsFractions, varsCompare,
               varsWriter, varsImt, varsSaveParam, varsQuerysetIter,
               varsScenario, varsNrml>>

frameRupture == <<varsCurves, varsBindi, varsHash, varsAssets, varsGmf,
                  varsMean, varsParam, varsRisk, varsValue, varsFractions,
                  varsCompare, varsWriter, varsImt, varsSaveParam,
                  varsQuerysetIter, varsScenario, varsNrml>>

frameValue == <<varsCurves, varsBindi, varsHash, varsAssets, varsGmf,
                varsMean, varsParam, varsRisk, varsRupture, varsFractions,
                varsCompare, varsWriter, varsImt, varsSaveParam,
                varsQuerysetIter, varsScenario, varsNrml>>

frameFractions == <<varsCurves, varsBindi, varsHash, varsAssets, varsGmf,
                    varsMean, varsParam, varsRisk, varsRupture, varsValue,
                    varsCompare, varsWriter, varsImt, varsSaveParam,
                    varsQuerysetIter, varsScenario, varsNrml>>

frameCompare == <<varsCurves, varsBindi, varsHash, varsAssets, varsGmf,
                  varsMean, varsParam, varsRisk, varsRupture, varsValue,
                  varsFractions, varsWriter, varsImt, varsSaveParam,
                  varsQuerysetIter, varsScenario, varsNrml>>

frameWriter == <<varsCurves, varsBindi, varsHash, varsAssets, varsGmf,
                 varsMean, varsParam, varsRisk, varsRupture, varsValue,
                 varsFractions, varsCompare, varsImt, varsSaveParam,
                 varsQuerysetIter, varsScenario, varsNrml>>

frameImt == <<varsCurves, varsBindi, varsHash, varsAssets, varsGmf, varsMean,
              varsParam, varsRisk, varsRupture, varsValue, varsFractions,
              varsCompare, varsWriter, varsSaveParam, varsQuerysetIter,
              varsScenario, varsNrml>>

frameSaveParam == <<varsCurves, varsBindi, varsHash, varsAssets, varsGmf,
                    varsMean, varsRisk, varsRupture, varsValue, varsFractions,
                    varsCompare, varsWriter, varsImt, varsQuerysetIter,
                    varsScenario, varsNrml>>

frameQuerysetIter == <<varsCurves, varsBindi, varsHash, varsAssets, varsGmf,
                       varsMean, varsParam, varsRisk, varsRupture, varsValue,
                       varsFractions, varsCompare, varsWriter, varsImt,
                       varsSaveParam, varsScenario, varsNrml>>

frameScenario == <<varsCurves, varsBindi, varsHash, varsAssets, varsGmf,
                   varsMean, varsParam, varsRisk, varsRupture, varsValue,
                   varsFractions, varsCompare, varsWriter, varsImt,
                   varsSaveParam, varsQuerysetIter, varsNrml>>

frameNrml == <<varsCurves, varsBindi, varsHash, varsAssets, varsGmf, varsMean,
               varsParam, varsRisk, varsRupture, varsValue, varsFractions,
               varsCompare, varsWriter, varsImt, varsSaveParam,
               varsQuerysetIter, varsScenario>>

None == "None"

\* The value of a variable that records a call, before any call.
NoCall == [call |-> None]

\* An optional argument: Nothing for None, Some(v) for the value v.
Nothing == <<>>

Some(v) == <<v>>

(***************************************************************************)
(* Helpers on sequences and sets.                                          *)
(***************************************************************************)
Range(s) == {s[i] : i \in DOMAIN s}

Abs(x) == IF x < 0 THEN -x ELSE x

\* The sequences that hold every element of the finite set S exactly once.
RECURSIVE Perms(_)
Perms(S) ==
    IF S = {}
    THEN {<<>>}
    ELSE UNION {{<<x>> \o p : p \in Perms(S \ {x})} : x \in S}

\* The rows of a table in the order of their ids (ORDER BY id).
RECURSIVE OrderById(_)
OrderById(rows) ==
    IF rows = {}
    THEN <<>>
    ELSE LET first == CHOOSE r \in rows : \A q \in rows : r.id <= q.id
         IN  <<first>> \o OrderById(rows \ {first})

(***************************************************************************)
(* Rational numbers <<num, den>> with den > 0, and numpy values: a scalar  *)
(* or a one-dimensional array of rationals.  Arithmetic between a scalar   *)
(* and an array broadcasts the scalar, as numpy does.                      *)
(***************************************************************************)
Rat(n, d) == <<n, d>>

RatEq(a, b) == a[1] * b[2] = b[1] * a[2]

RatOneMinus(a) == <<a[2] - a[1], a[2]>>

RatTimes(a, b) == <<a[1] * b[1], a[2] * b[2]>>

Scalar(r) == [shape |-> "scalar", v |-> r]

Array(s) == [shape |-> "array", v |-> s]

\* 1. - x
OneMinus(x) ==
    IF x.shape = "scalar"
    THEN Scalar(RatOneMinus(x.v))
    ELSE Array([i \in DOMAIN x.v |-> RatOneMinus(x.v[i])])

\* x * y
Times(x, y) ==
    CASE x.shape = "scalar" /\ y.shape = "scalar" ->
            Scalar(RatTimes(x.v, y.v))
      [] x.shape = "scalar" /\ y.shape = "array" ->
            Array([i \in DOMAIN y.v |-> RatTimes(x.v, y.v[i])])
      [] x.shape = "array" /\ y.shape = "scalar" ->
            Array([i \in DOMAIN x.v |-> RatTimes(x.v[i], y.v)])
      [] OTHER ->
            Array([i \in DOMAIN x.v |-> RatTimes(x.v[i], y.v[i])])

\* Same shape, same length and the same numbers.
SameValue(x, y) ==
    /\ x.shape = y.shape
    /\ IF x.shape = "scalar"
       THEN RatEq(x.v, y.v)
       ELSE /\ Len(x.v) = Len(y.v)
            /\ \A i \in DOMAIN x.v : RatEq(x.v[i], y.v[i])

(***************************************************************************)
(* HAZARD CURVE COMBINER: build_curves(rlz, curves_by_trt_model_gsim).     *)
(*                                                                         *)
(* built is NoCall or the last call of build_curves: its realization, its    *)
(* argument and the curves it returned.  Inserting an association ends the *)
(* call: its result is dropped.                                            *)
(***************************************************************************)
\* Most rows the association table gets.
MaxAssoc == 3

LtRealizations == {1, 2}

\* The trt models of the source model of each realization (a TrtModel
\* belongs to one LtSourceModel, and so does a LtRealization).
TrtModelsOf(rlz) == IF rlz = 1 THEN {1, 2, 3} ELSE {4}

\* TrtModel.gsims: the gsims of each trt model.
GsimsOf(trt_model_id) ==
    CASE trt_model_id \in {1, 2} -> {"gsimA", "gsimB"}
      [] trt_model_id = 3 -> {"gsimB"}
      [] OTHER -> {"gsimA"}

\* The intensity measure levels of a curve.
IMLs == <<"iml1", "iml2">>

\* The probabilities of exceedance a stored curve holds: 0, 1/2 and 1.
PoEs == {Rat(0, 1), Rat(1, 2), Rat(1, 1)}

\* The curves stored for a (trt_model, gsim) pair: one PoE per IML.
Curves == {Array(c) : c \in [DOMAIN IMLs -> PoEs]}

\* AssocLtRlzTrtModel.objects.filter(rlz=rlz): the rows of the realization,
\* in the order of Meta.ordering = ['id'].
AssocLtRlzTrtModel_filter(rlz) ==
    OrderById({art \in assoc_lt_rlz_trt_model : art.rlz = rlz})

\* A slip in the initial value: curves = 1
build_curves_init_one == Scalar(Rat(1, 1))

\* curves = 0
build_curves_init == Scalar(Rat(0, 1))

\* A slip in the update: curves = 1. - curves * pnes
build_curves_step_no_pne(curves, pnes) == OneMinus(Times(curves, pnes))

\* curves = 1. - (1. - curves) * pnes
build_curves_step(curves, pnes) == OneMinus(Times(OneMinus(curves), pnes))

\* The for loop of build_curves over the associations arts, from curves.
RECURSIVE build_curves_loop(_, _, _)
build_curves_loop(arts, curves_by_trt_model_gsim, curves) ==
    IF arts = <<>>
    THEN curves
    ELSE LET art == Head(arts)
             pnes == OneMinus(
                 curves_by_trt_model_gsim[<<art.trt_model_id, art.gsim>>])
         IN  build_curves_loop(Tail(arts), curves_by_trt_model_gsim,
                               build_curves_step(curves, pnes))

build_curves(rlz, curves_by_trt_model_gsim) ==
    build_curves_loop(AssocLtRlzTrtModel_filter(rlz),
                      curves_by_trt_model_gsim, build_curves_init)

\* The (trt_model_id, gsim) keys build_curves looks up for the realization.
KeysOf(rlz) ==
    {<<art.trt_model_id, art.gsim>> :
        art \in {a \in assoc_lt_rlz_trt_model : a.rlz = rlz}}

\* No association yet and no call made.
IdleCurves ==
    /\ assoc_lt_rlz_trt_model = {}
    /\ built = NoCall

\* A row is inserted; the database gives it the next id.  Fixed a
\* realization and a trt model, the gsim is unique.
AssocCreate(rlz, trt_model_id, gsim) ==
    /\ Cardinality(assoc_lt_rlz_trt_model) < MaxAssoc
    /\ \A art \in assoc_lt_rlz_trt_model :
           ~(art.rlz = rlz /\ art.trt_model_id = trt_model_id)
    /\ assoc_lt_rlz_trt_model' = assoc_lt_rlz_trt_model \cup
           {[id |-> Cardinality(assoc_lt_rlz_trt_model) + 1, rlz |-> rlz,
             trt_model_id |-> trt_model_id, gsim |-> gsim]}
    /\ built' = NoCall
    /\ UNCHANGED frameCurves

\* A call of build_curves, made when no result is held.
BuildCurves(rlz, curves_by_trt_model_gsim) ==
    /\ built = NoCall
    /\ built' = [call |-> "build_curves", rlz |-> rlz,
                 curves_by_trt_model_gsim |-> curves_by_trt_model_gsim,
                 curves |-> build_curves(rlz, curves_by_trt_model_gsim)]
    /\ UNCHANGED <<assoc_lt_rlz_trt_model, frameCurves>>

NextCurves ==
    \/ \E rlz \in LtRealizations :
          \E trt_model_id \in TrtModelsOf(rlz) :
              \E gsim \in GsimsOf(trt_model_id) :
                  AssocCreate(rlz, trt_model_id, gsim)
    \/ \E rlz \in LtRealizations :
          \E curves_by_trt_model_gsim \in [KeysOf(rlz) -> Curves] :
              BuildCurves(rlz, curves_by_trt_model_gsim)

(***************************************************************************)
(* Claims on build_curves.                                                 *)
(***************************************************************************)
\* The associations of the realization of the last call.
BuiltAssocs == {art \in assoc_lt_rlz_trt_model : art.rlz = built.rlz}

\* The product of 1 - curve over the associations arts, taken in no
\* particular order; the empty product is the number 1.
RECURSIVE ProductOfPnes(_, _)
ProductOfPnes(arts, curves_by_trt_model_gsim) ==
    IF arts = {}
    THEN Scalar(Rat(1, 1))
    ELSE LET art == CHOOSE a \in arts : TRUE
         IN  Times(OneMinus(
                 curves_by_trt_model_gsim[<<art.trt_model_id, art.gsim>>]),
                 ProductOfPnes(arts \ {art}, curves_by_trt_model_gsim))

\* C1: build_curves returns 1 - prod(1 - curve[trt_model, gsim]) over the
\* associations of the realization, and visiting the associations in any
\* other order returns the same curves.
C1_BuildCurvesIsCommutativeProduct ==
    built.call = "build_curves" =>
        /\ SameValue(built.curves,
                     OneMinus(ProductOfPnes(BuiltAssocs,
                                            built.curves_by_trt_model_gsim)))
        /\ \A arts \in Perms(BuiltAssocs) :
               SameValue(built.curves,
                         build_curves_loop(arts,
                                           built.curves_by_trt_model_gsim,
                                           build_curves_init))

\* C1 witness: a call that visited two associations against the order of
\* their trt models, with different curves, and returned a curve that is
\* neither of them.
C1_Witness ==
    /\ built.call = "build_curves"
    /\ \E a, b \in BuiltAssocs :
           /\ a.id < b.id
           /\ a.trt_model_id > b.trt_model_id
           /\ LET ca == built.curves_by_trt_model_gsim[
                            <<a.trt_model_id, a.gsim>>]
                  cb == built.curves_by_trt_model_gsim[
                            <<b.trt_model_id, b.gsim>>]
              IN  /\ ~SameValue(ca, cb)
                  /\ ~SameValue(built.curves, ca)
                  /\ ~SameValue(built.curves, cb)

\* The all-zero curve: one PoE of 0 per IML.
ZeroCurve == Array([i \in DOMAIN IMLs |-> Rat(0, 1)])

Runs == {1, 2}

\* Most ids the sequences of a database have handed out before the run.
MaxSeqStart == 1

ResultKinds ==
    {"loss_curve", "loss_map", "loss_fraction", "event_loss",
     "bcr_distribution"}

\* The result both runs persist: the fields of its container and the
\* metadata of the hazard output it was computed from.
LogicalResult(kind) ==
    [output_type |-> kind,
     investigation_time |-> 50,
     sm_lt_path |-> <<"b1">>, gsim_lt_path |-> <<"b1", "b2">>,
     statistics |-> IF kind = "loss_map" THEN "quantile" ELSE None,
     quantile |-> IF kind = "loss_map" THEN 75 ELSE None,
     aggregate |-> FALSE, insured |-> kind = "loss_curve",
     poe |-> IF kind \in {"loss_map", "loss_fraction"} THEN 10 ELSE None,
     variable |-> IF kind = "loss_fraction" THEN "taxonomy" ELSE None,
     loss_type |-> "structural"]

\* What identifies a detail row of the result across runs: the asset
\* reference, the tag of the rupture (event loss) or the location and the
\* bin value (loss fraction).
DetailKeys(kind) ==
    CASE kind = "event_loss" ->
            {[tag |-> t] : t \in {"smlt=00|ses=0001|src=1|rup=001-01",
                                  "smlt=00|ses=0001|src=1|rup=002-01"}}
      [] kind = "loss_fraction" ->
            {[x |-> 1000004, y |-> 2000000, value |-> "RC"],
             [x |-> 1000004, y |-> 2000000, value |-> "W"]}
      [] OTHER -> {[asset_ref |-> a] : a \in {"a1", "a2"}}

\* The id the database gives to the next row of a table of the run.
NextId(run, table) == seq_start[run] + Cardinality(table) + 1

\* row.fk resolved in a table: the row with that id.
RowById(table, id) == CHOOSE row \in table : row.id = id

\* "%.5f" % x for x >= 0 in millionths: hundred-thousandths, rounded.
Format5f(x) == (x + 5) \div 10

\* Output.statistical_params
statistical_params(run, out) ==
    LET container == CHOOSE c \in risk_container[run] : c.output_id = out.id
    IN  IF container.statistics # None
        THEN <<container.statistics, container.quantile>>
        ELSE LET hazard ==
                     RowById(hazard_output[run], container.hazard_output_id)
             IN  <<hazard.statistics, hazard.quantile>>

\* Output.lt_realization_paths of a risk output: those of its hazard output.
lt_realization_paths(run, out) ==
    LET container == CHOOSE c \in risk_container[run] : c.output_id = out.id
        hazard == RowById(hazard_output[run], container.hazard_output_id)
    IN  <<hazard.gsim_lt_path, hazard.sm_lt_path>>

\* Output.hazard_metadata
hazard_metadata(run, out) ==
    LET sp == statistical_params(run, out)
        paths == lt_realization_paths(run, out)
    IN  <<out.investigation_time, sp[1], sp[2], paths[2], paths[1]>>

\* LossCurve, LossMap, LossFraction, EventLoss and BCRDistribution
\* .output_hash
output_hash(run, container) ==
    LET out == RowById(output[run], container.output_id)
        head == <<out.output_type, hazard_metadata(run, out)>>
    IN  CASE out.output_type = "loss_fraction" ->
                head \o <<container.statistics, container.quantile,
                          container.variable, container.poe,
                          container.loss_type>>
          [] out.output_type = "loss_map" ->
                head \o <<container.statistics, container.quantile,
                          container.insured, container.poe,
                          container.loss_type>>
          [] out.output_type = "loss_curve" ->
                head \o <<container.statistics, container.quantile,
                          container.aggregate, container.insured,
                          container.loss_type>>
          [] OTHER -> head \o <<container.loss_type>>

\* LossCurveData, LossMapData, LossFractionData, EventLossData and
\* BCRDistributionData .data_hash
data_hash(run, data) ==
    LET container == RowById(risk_container[run], data.container_id)
        kind == RowById(output[run], container.output_id).output_type
    IN  CASE kind = "loss_fraction" ->
                output_hash(run, container) \o
                    <<Format5f(data.x), Format5f(data.y), data.value>>
          [] kind = "event_loss" ->
                output_hash(run, container) \o <<data.rupture_id>>
          [] OTHER -> output_hash(run, container) \o <<data.asset_ref>>

\* Both databases are empty but for the ids their sequences have used up
\* and for the hazard output the result is computed from.
StartHash ==
    /\ result_kind \in ResultKinds
    /\ seq_start \in [Runs -> 0..MaxSeqStart]
    /\ hazard_output =
           [run \in Runs |->
               {[id |-> seq_start[run] + 1,
                 statistics |-> None, quantile |-> None,
                 sm_lt_path |-> LogicalResult(result_kind).sm_lt_path,
                 gsim_lt_path |-> LogicalResult(result_kind).gsim_lt_path]}]
    /\ output = [run \in Runs |-> {}]
    /\ risk_container = [run \in Runs |-> {}]
    /\ risk_data = [run \in Runs |-> {}]
    /\ run_ses_rupture = [run \in Runs |-> {}]

IdleHash ==
    /\ result_kind = None
    /\ seq_start = [run \in Runs |-> 0]
    /\ hazard_output = [run \in Runs |-> {}]
    /\ output = [run \in Runs |-> {}]
    /\ risk_container = [run \in Runs |-> {}]
    /\ risk_data = [run \in Runs |-> {}]
    /\ run_ses_rupture = [run \in Runs |-> {}]

\* The hazard calculation of the run saves a rupture occurrence
\* (SESRupture.create); only the event loss table refers to ruptures.
SaveSESRupture(run, tag) ==
    /\ result_kind = "event_loss"
    /\ \A row \in run_ses_rupture[run] : row.tag # tag
    /\ run_ses_rupture' =
           [run_ses_rupture EXCEPT ![run] =
               @ \cup {[id |-> NextId(run, @), tag |-> tag]}]
    /\ UNCHANGED <<result_kind, seq_start, hazard_output, output,
                   risk_container, risk_data, frameHash>>

\* The run saves the Output row of the result and its container.
SaveOutput(run) ==
    /\ output[run] = {}
    /\ LET res == LogicalResult(result_kind)
           hazard == CHOOSE h \in hazard_output[run] : TRUE
           out == [id |-> NextId(run, output[run]),
                   output_type |-> res.output_type,
                   investigation_time |-> res.investigation_time]
       IN  /\ output' = [output EXCEPT ![run] = {out}]
           /\ risk_container' =
                  [risk_container EXCEPT ![run] =
                      {[id |-> NextId(run, risk_container[run]),
                        output_id |-> out.id,
                        hazard_output_id |-> hazard.id,
                        statistics |-> res.statistics,
                        quantile |-> res.quantile,
                        aggregate |-> res.aggregate,
                        insured |-> res.insured,
                        poe |-> res.poe, variable |-> res.variable,
                        loss_type |-> res.loss_type]}]
    /\ UNCHANGED <<result_kind, seq_start, hazard_output, risk_data,
                   run_ses_rupture, frameHash>>

\* The detail rows of the run with their foreign keys followed: the key of
\* each row as DetailKeys gives it.
KeyOfData(run, data) ==
    CASE result_kind = "event_loss" ->
            [tag |-> RowById(run_ses_rupture[run], data.rupture_id).tag]
      [] result_kind = "loss_fraction" ->
            [x |-> data.x, y |-> data.y, value |-> data.value]
      [] OTHER -> [asset_ref |-> data.asset_ref]

\* The run saves one detail row of the result; an event loss refers to the
\* rupture occurrence by the id it has in the database of the run.
SaveData(run, key) ==
    /\ risk_container[run] # {}
    /\ \A data \in risk_data[run] : KeyOfData(run, data) # key
    /\ result_kind = "event_loss" =>
           \E row \in run_ses_rupture[run] : row.tag = key.tag
    /\ LET container == CHOOSE c \in risk_container[run] : TRUE
           base == [id |-> NextId(run, risk_data[run]),
                    container_id |-> container.id,
                    asset_ref |-> None, rupture_id |-> 0,
                    x |-> 0, y |-> 0, value |-> None]
           data ==
               CASE result_kind = "event_loss" ->
                       [base EXCEPT !.rupture_id =
                           (CHOOSE row \in run_ses_rupture[run] :
                                row.tag = key.tag).id]
                 [] result_kind = "loss_fraction" ->
                       [base EXCEPT !.x = key.x, !.y = key.y,
                                    !.value = key.value]
                 [] OTHER -> [base EXCEPT !.asset_ref = key.asset_ref]
       IN  risk_data' = [risk_data EXCEPT ![run] = @ \cup {data}]
    /\ UNCHANGED <<result_kind, seq_start, hazard_output, output,
                   risk_container, run_ses_rupture, frameHash>>

NextHash ==
    \/ \E run \in Runs :
          \E key \in DetailKeys("event_loss") :
              SaveSESRupture(run, key.tag)
    \/ \E run \in Runs : SaveOutput(run)
    \/ \E run \in Runs :
          \E key \in DetailKeys(result_kind) : SaveData(run, key)

(***************************************************************************)
(* Claims on the hashes.                                                   *)
(***************************************************************************)
\* The containers of the two runs have the same output_hash.
SameOutputHash ==
    \A c1 \in risk_container[1], c2 \in risk_container[2] :
        output_hash(1, c1) = output_hash(2, c2)

\* The detail rows of the two runs that hold the same detail of the result
\* have the same data_hash.
SameDataHash ==
    \A d1 \in risk_data[1], d2 \in risk_data[2] :
        KeyOfData(1, d1) = KeyOfData(2, d2) =>
            data_hash(1, d1) = data_hash(2, d2)

\* C3: for every kind of result, two runs that persist the same result,
\* with different ids given by their databases and in different orders,
\* get equal output_hash and equal data_hash for corresponding rows.
C3_HashesIndependentOfIds == SameOutputHash /\ SameDataHash

\* What holds of the code: the claim for every kind but the event loss
\* table, and for the output_hash of the event loss table.
HashesAgreeButForEventLossData ==
    /\ SameOutputHash
    /\ result_kind # "event_loss" => SameDataHash

(***************************************************************************)
(* ASSET CHUNKS: AssetManager.get_asset_chunk.                             *)
(*                                                                         *)
(* One exposure model; the category is not "population", so that the       *)
(* condition on the occupants is true.  Every query is answered on its     *)
(* own: rows that ORDER BY leaves tied come in an order the database       *)
(* chooses anew for each query.                                            *)
(***************************************************************************)
\* Most rows of riski.exposure_data.
MaxAssets == 3

\* Most queries answered.
MaxChunks == 2

\* The sites <<x, y>> of the assets; the last one is outside the region.
Sites == {<<0, 0>>, <<0, 1>>, <<1, 0>>, <<9, 9>>}

\* rc.region_constraint, as the sites it covers.
region_constraint == {<<0, 0>>, <<0, 1>>, <<1, 0>>}

Taxonomies == {"RC", "W"}

\* The values of the arguments offset and size.
Offsets == 0..(MaxAssets - 1)

Sizes == {Nothing} \cup {Some(n) : n \in 1..MaxAssets}

\* The values of the argument asset_ids.
AssetIdSets == {Nothing, Some({1, 2})}

\* WHERE taxonomy = %s AND ST_COVERS(region, site) AND assets_cond
MatchingAssets(taxonomy, asset_ids) ==
    {a \in exposure_data :
        /\ a.taxonomy = taxonomy
        /\ a.site \in region_constraint
        /\ asset_ids # Nothing => a.id \in asset_ids[1]}

\* ORDER BY ST_X(geometry(site)), ST_Y(geometry(site)): a comes no later
\* than b.
LocationLeq(a, b) ==
    \/ a.site[1] < b.site[1]
    \/ a.site[1] = b.site[1] /\ a.site[2] <= b.site[2]

IsOrderedByLocation(rows) ==
    \A i, j \in DOMAIN rows : i < j => LocationLeq(rows[i], rows[j])

\* The orders in which the database may return the rows: every order that
\* ORDER BY x, y allows.
OrdersByLocation(rows) ==
    {order \in Perms(rows) : IsOrderedByLocation(order)}

\* if offset: OFFSET %d;  if size is not None: LIMIT %d
OffsetLimit(order, offset, size) ==
    LET last == IF size = Nothing THEN Len(order)
                ELSE IF offset + size[1] < Len(order) THEN offset + size[1]
                ELSE Len(order)
    IN  SubSeq(order, offset + 1, last)

StartAssets ==
    /\ exposure_data = {}
    /\ asset_chunks = {}

IdleAssets ==
    /\ exposure_data = {}
    /\ asset_chunks = {}

\* The exposure is imported: a row of riski.exposure_data is inserted.  The
\* table is not changed once the risk calculation asks for chunks.
ExposureDataInsert(site, taxonomy) ==
    /\ asset_chunks = {}
    /\ Cardinality(exposure_data) < MaxAssets
    /\ exposure_data' = exposure_data \cup
           {[id |-> Cardinality(exposure_data) + 1,
             site |-> site, taxonomy |-> taxonomy]}
    /\ UNCHANGED <<asset_chunks, frameAssets>>

\* A worker calls get_asset_chunk(rc, taxonomy, offset, size, asset_ids).
GetAssetChunk(taxonomy, offset, size, asset_ids) ==
    /\ Cardinality(asset_chunks) < MaxChunks
    /\ \E order \in OrdersByLocation(MatchingAssets(taxonomy, asset_ids)) :
          asset_chunks' = asset_chunks \cup
              {[taxonomy |-> taxonomy, offset |-> offset, size |-> size,
                asset_ids |-> asset_ids,
                rows |-> OffsetLimit(order, offset, size)]}
    /\ UNCHANGED <<exposure_data, frameAssets>>

NextAssets ==
    \/ \E site \in Sites : \E taxonomy \in Taxonomies :
          ExposureDataInsert(site, taxonomy)
    \/ \E taxonomy \in Taxonomies : \E offset \in Offsets :
          \E size \in Sizes : \E asset_ids \in AssetIdSets :
              GetAssetChunk(taxonomy, offset, size, asset_ids)

(***************************************************************************)
(* Claims on the chunks.                                                   *)
(***************************************************************************)
\* Two chunks of the same selection of assets.
SameSelection(c1, c2) ==
    c1.taxonomy = c2.taxonomy /\ c1.asset_ids = c2.asset_ids

\* The ranges [offset, offset + size) of two chunks are disjoint.
DisjointRanges(c1, c2) ==
    \/ c1.size # Nothing /\ c1.offset + c1.size[1] <= c2.offset
    \/ c2.size # Nothing /\ c2.offset + c2.size[1] <= c1.offset

\* The ranges of two chunks cover every offset: [0, k) and [k, end).
CoveringRanges(c1, c2) ==
    /\ c1.offset = 0 /\ c1.size # Nothing
    /\ c2.offset = c1.size[1] /\ c2.size = Nothing

\* Every chunk comes ordered by x then y.
ChunksOrderedByLocation ==
    \A c \in asset_chunks : IsOrderedByLocation(c.rows)

\* Chunks at disjoint ranges are disjoint, and chunks that cover every
\* offset hold every matching asset.
ChunksPartitionAssets ==
    \A c1, c2 \in asset_chunks :
        SameSelection(c1, c2) =>
            /\ DisjointRanges(c1, c2) =>
                   Range(c1.rows) \cap Range(c2.rows) = {}
            /\ CoveringRanges(c1, c2) =>
                   Range(c1.rows) \cup Range(c2.rows) =
                       MatchingAssets(c1.taxonomy, c1.asset_ids)

\* C4: get_asset_chunk returns the matching assets ordered by x then y, and
\* chunks asked for in separate queries at disjoint ranges are pairwise
\* disjoint and together hold every matching asset exactly once, also when
\* several assets share a site.
C4_ChunksAreDeterministic ==
    ChunksOrderedByLocation /\ ChunksPartitionAssets

\* No two assets of the exposure share a site.
SitesAreDistinct ==
    \A a, b \in exposure_data : a.site = b.site => a = b

\* What holds of the code: every chunk is ordered by x then y, and the
\* chunks partition the assets when no two assets share a site.
ChunksPartitionAssetsOfDistinctSites ==
    /\ ChunksOrderedByLocation
    /\ SitesAreDistinct => ChunksPartitionAssets

(***************************************************************************)
(* GROUND MOTION FIELDS: SES.__iter__, Gmf.by_rupture, Gmf.iternew and     *)
(* Gmf.__iter__.                                                           *)
(*                                                                         *)
(* One job with one Gmf.  A text is the sequence of the codes of its       *)
(* characters, so that ORDER BY tag can compare tags.  The database is     *)
(* taken to compare text code by code (the C collation).  A ground motion  *)
(* value is written <<id of the rupture, site>>: the value computed for    *)
(* that rupture at that site.                                              *)
(***************************************************************************)
\* Most rows of hzrdr.ses_rupture.
MaxSesRuptures == 2

\* hc.ses_per_logic_tree_path
ses_per_logic_tree_path == 2

\* The tables hzrdr.ses_collection may be: one or two collections, with the
\* ids the sequence of the database gave them.
SESCollectionTables ==
    {{[id |-> 1, ordinal |-> 0]},
     {[id |-> 3, ordinal |-> 0]},
     {[id |-> 1, ordinal |-> 0], [id |-> 2, ordinal |-> 1]}}

\* The ids of the rows of hzrdr.probabilistic_rupture.
RuptureIds == {1, 2}

\* The complete site collection of the calculation.
SiteCollection(sites) == [kind |-> "SiteCollection", sites |-> sites]

sitecol == SiteCollection(<<"s0", "s1", "s2">>)

\* The values of ProbabilisticRupture.site_indices.
SiteIndicesChoices == {Nothing, Some(<<0, 2>>)}

\* lt_realization.get_gsim_instances() and sorted(hc.intensity_measure_types)
gsims == <<"gsimA">>

imts == <<"PGA">>

\* The source ids "1" and "10", the rupture numbers and the occurrence
\* numbers SESRupture.create is called with.
SourceIds == {<<49>>, <<49, 48>>}

RuptNos == {1}

RuptOccs == {1}

Seeds == {42}

\* '%d' % n for n >= 0
RECURSIVE Decimal(_)
Decimal(n) ==
    IF n < 10 THEN <<48 + n>> ELSE Decimal(n \div 10) \o <<48 + (n % 10)>>

\* '%0<width>d' % n for n >= 0: zeros on the left up to the width.
RECURSIVE ZeroPad(_, _)
ZeroPad(text, width) ==
    IF Len(text) >= width THEN text ELSE ZeroPad(<<48>> \o text, width)

\* 'smlt=%02d|ses=%04d|src=%s|rup=%03d-%02d'
FormatTag(smlt, ses_ordinal, source_id, rupt_no, rupt_occ) ==
    <<115, 109, 108, 116, 61>> \o ZeroPad(Decimal(smlt), 2)
        \o <<124, 115, 101, 115, 61>> \o ZeroPad(Decimal(ses_ordinal), 4)
        \o <<124, 115, 114, 99, 61>> \o source_id
        \o <<124, 114, 117, 112, 61>> \o ZeroPad(Decimal(rupt_no), 3)
        \o <<45>> \o ZeroPad(Decimal(rupt_occ), 2)

\* a <= b for texts, code by code.
LexLeq(a, b) ==
    \/ /\ Len(a) <= Len(b)
       /\ \A i \in 1..Len(a) : a[i] = b[i]
    \/ \E i \in 1..Len(a) :
          /\ i <= Len(b)
          /\ \A j \in 1..(i - 1) : a[j] = b[j]
          /\ a[i] < b[i]

\* The sequences of a sequence of sequences, one after the other.
RECURSIVE Concat(_)
Concat(seqs) ==
    IF seqs = <<>> THEN <<>> ELSE Head(seqs) \o Concat(Tail(seqs))

\* queryset.order_by() with no field: the rows in any order.
order_by_nothing(rows) == Perms(rows)

\* queryset.order_by('tag'): the rows in an order of ascending tag; rows of
\* equal tag in the order the database chooses.
order_by_tag(rows) ==
    {order \in Perms(rows) :
        \A i, j \in DOMAIN order : i < j => LexLeq(order[i].tag, order[j].tag)}

\* SESCollection.objects.filter(output__oq_job=job), ordering = ['ordinal']
SESCollection_filter ==
    LET RECURSIVE ByOrdinal(_)
        ByOrdinal(rows) ==
            IF rows = {} THEN <<>>
            ELSE LET first == CHOOSE r \in rows :
                                  \A q \in rows : r.ordinal <= q.ordinal
                 IN  <<first>> \o ByOrdinal(rows \ {first})
    IN  ByOrdinal(ses_collection)

\* SESCollection.__iter__: SES(self, ordinal) for ordinal = 1..n
SESCollection_iter(ses_coll) ==
    [ordinal \in 1..ses_per_logic_tree_path |->
        [ses_collection |-> ses_coll, ordinal |-> ordinal]]

\* Every SES of the job, as the nested loops of by_rupture, iternew and
\* __iter__ visit them.
AllSES ==
    Concat([c \in DOMAIN SESCollection_filter |->
                SESCollection_iter(SESCollection_filter[c])])

\* filter(rupture__ses_collection=self.ses_collection.id,
\*        ses_id=self.ordinal)
InSES(row, ses) ==
    /\ RowById(probabilistic_rupture, row.rupture_id).ses_collection_id
           = ses.ses_collection.id
    /\ row.ses_id = ses.ordinal

\* SES.__iter__, as the part of the ordered table that the filter keeps.
SES_iter(ses, order) ==
    LET Keeps(row) == InSES(row, ses)
    IN  SelectSeq(order, Keeps)

\* FilteredSiteCollection(indices, complete): the sites of the complete
\* collection at the indices, counted from 0.
FilteredSiteCollection(indices, complete) ==
    IF complete.kind = "SiteCollection"
    THEN SiteCollection([i \in DOMAIN indices |->
                            complete.sites[indices[i] + 1]])
    ELSE complete

\* A slip: the site_indices of the rupture are not looked at.
sites_of_rupture_unfiltered(rupture, complete) == complete

\* sites = sitecol if rupture.site_indices is None
\*         else FilteredSiteCollection(rupture.site_indices, sitecol)
sites_of_rupture(rupture, complete) ==
    IF rupture.site_indices = Nothing
    THEN complete
    ELSE FilteredSiteCollection(rupture.site_indices[1], complete)

\* GmfComputer(rupture, sites, imts, gsims, ...).compute(seed): for each
\* gsim and imt, one ground motion value for each of the sites.
GmfComputer_compute(rupture, sites, seed) ==
    [key \in Range(gsims) \X Range(imts) |->
        IF sites.kind = "SiteCollection"
        THEN [i \in DOMAIN sites.sites |-> <<rupture.id, sites.sites[i]>>]
        ELSE <<>>]

\* itertools.groupby(ses, operator.attrgetter('rupture')): the rows that
\* follow one another with the same rupture, as one group.
RECURSIVE groupby_rupture(_)
groupby_rupture(rows) ==
    IF rows = <<>>
    THEN <<>>
    ELSE LET key == rows[1].rupture_id
             n == CHOOSE m \in 1..Len(rows) :
                      /\ \A i \in 1..m : rows[i].rupture_id = key
                      /\ m = Len(rows) \/ rows[m + 1].rupture_id # key
         IN  <<[rupture |-> RowById(probabilistic_rupture, key),
                ses_ruptures |-> SubSeq(rows, 1, n)]>>
                 \o groupby_rupture(SubSeq(rows, n + 1, Len(rows)))

\* A value is taken for true by `if`: not None and not 0.
Truthy(optional) == optional # Nothing /\ optional[1] # 0

\* What by_rupture yields for one SES: for each group of the rows, the sites
\* of its rupture and, for each row of the group, the computed fields.
by_rupture_ses(ses, complete, order) ==
    LET groups == groupby_rupture(SES_iter(ses, order))
        Triples(group) ==
            LET sites == sites_of_rupture(group.rupture, complete)
            IN  [i \in DOMAIN group.ses_ruptures |->
                    [ses_rup |-> group.ses_ruptures[i],
                     sites |-> sites,
                     gmf_dict |->
                         GmfComputer_compute(group.rupture, sites,
                             group.ses_ruptures[i].seed)]]
    IN  Concat([g \in DOMAIN groups |-> Triples(groups[g])])

\* Gmf.by_rupture(sitecol, ses_collection_id, ses_ordinal), run to its end.
\* What FilteredSiteCollection and GmfComputer do with a first argument
\* that is no site collection is not in this repository: they raise, or
\* (lenient) they take it as it is.
by_rupture(complete, ses_collection_id, ses_ordinal, order, lenient) ==
    LET Visited(ses) ==
            /\ ~ (/\ Truthy(ses_collection_id)
                  /\ ses_collection_id[1] # ses.ses_collection.id)
            /\ ~ (Truthy(ses_ordinal) /\ ses_ordinal[1] # ses.ordinal)
        visited == SelectSeq(AllSES, Visited)
        triples == Concat([i \in DOMAIN visited |->
                              by_rupture_ses(visited[i], complete, order)])
    IN  IF complete.kind # "SiteCollection" /\ triples # <<>> /\ ~ lenient
        THEN [raised |-> TRUE, yielded |-> <<>>]
        ELSE [raised |-> FALSE, yielded |-> triples]

\* GmfSet(ses, gmfset)
GmfSet(ses, gmfset) == [ses |-> ses, gmfs |-> gmfset]

\* for gsim, imt in gmf_dict: the keys of the dictionary (one key here, so
\* that the order of a dictionary does not matter).
gmf_dict_keys ==
    Concat([g \in DOMAIN gsims |->
               [i \in DOMAIN imts |-> <<gsims[g], imts[i]>>]])

\* The _GroundMotionField objects iternew appends for one yielded triple;
\* the nodes are zip(gmvs, sites.lons, sites.lats).
iternew_fields(triple) ==
    [k \in DOMAIN gmf_dict_keys |->
        [imt |-> gmf_dict_keys[k][2],
         tag |-> triple.ses_rup.tag,
         nodes |->
             IF triple.sites.kind = "SiteCollection"
             THEN {<<triple.gmf_dict[gmf_dict_keys[k]][i],
                     triple.sites.sites[i]>> :
                       i \in DOMAIN triple.sites.sites}
             ELSE {}]]

\* Gmf.iternew from the SES `sess` on, run to its end: for each SES,
\* self.by_rupture(ses_coll.id, ses.ordinal), that is with
\* sitecol = ses_coll.id, ses_collection_id = ses.ordinal and
\* ses_ordinal = None.
RECURSIVE iternew(_, _, _)
iternew(sess, orders, lenient) ==
    IF sess = <<>>
    THEN [raised |-> FALSE, yielded |-> <<>>]
    ELSE LET ses == Head(sess)
             by == by_rupture([kind |-> "int",
                               value |-> ses.ses_collection.id],
                              Some(ses.ordinal), Nothing, orders[ses],
                              lenient)
             gmfset == Concat([i \in DOMAIN by.yielded |->
                                  iternew_fields(by.yielded[i])])
             rest == iternew(Tail(sess), orders, lenient)
         IN  IF by.raised
             THEN [raised |-> TRUE, yielded |-> <<>>]
             ELSE [raised |-> rest.raised,
                   yielded |->
                       IF rest.raised THEN <<>>
                       ELSE (IF gmfset # <<>>
                             THEN <<GmfSet(ses, gmfset)>>
                             ELSE <<>>) \o rest.yielded]

\* The rows the query of Gmf.__iter__ returns for one SES: gmf_data with
\* rupture_ids and gmvs unnested, joined with ses_rupture and
\* probabilistic_rupture, WHERE y.ses_id = ordinal AND
\* z.ses_collection_id = id, GROUP BY imt, tag ORDER BY imt, tag.
iter_query(ses) ==
    LET x == UNION {{[imt |-> d.imt, rupture_id |-> d.rupture_ids[k],
                      site |-> d.site_id, gmv |-> d.gmvs[k]] :
                        k \in DOMAIN d.rupture_ids} : d \in gmf_data}
        joined == {[imt |-> r.imt, tag |-> y.tag, site |-> r.site,
                    gmv |-> r.gmv] :
                      <<r, y>> \in {p \in x \X ses_rupture :
                                       /\ p[1].rupture_id = p[2].id
                                       /\ InSES(p[2], ses)}}
        groups == {[imt |-> j.imt, tag |-> j.tag,
                    nodes |-> {<<i.gmv, i.site>> :
                                  i \in {i \in joined : /\ i.imt = j.imt
                                                        /\ i.tag = j.tag}}] :
                      j \in joined}
    IN  CHOOSE order \in order_by_tag(groups) : TRUE

\* Gmf.__iter__ from the SES `sess` on, run to its end.
RECURSIVE iter(_)
iter(sess) ==
    IF sess = <<>>
    THEN <<>>
    ELSE LET gmfset == iter_query(Head(sess))
         IN  (IF gmfset # <<>> THEN <<GmfSet(Head(sess), gmfset)>>
              ELSE <<>>) \o iter(Tail(sess))

\* The collections of the job and the ruptures of the hazard calculation
\* are there; no rupture occurrence is saved yet.
StartGmf ==
    /\ ses_collection \in SESCollectionTables
    /\ probabilistic_rupture \in
           {{[id |-> r, ses_collection_id |-> f[r][1],
              site_indices |-> f[r][2]] : r \in RuptureIds} :
               f \in [RuptureIds ->
                         {c.id : c \in ses_collection}
                             \X SiteIndicesChoices]}
    /\ ses_rupture = {}
    /\ gmf_data = {}
    /\ gmf_call = NoCall

IdleGmf ==
    /\ ses_collection = {}
    /\ probabilistic_rupture = {}
    /\ ses_rupture = {}
    /\ gmf_data = {}
    /\ gmf_call = NoCall

\* SESRupture.create(prob_rupture, ses_ordinal, source_id, rupt_no,
\*                   rupt_occ, seed)
SESRupture_create(prob_rupture, ses_ordinal, source_id, rupt_no, rupt_occ, seed) ==
    /\ gmf_call = NoCall
    /\ gmf_data = {}
    /\ Cardinality(ses_rupture) < MaxSesRuptures
    /\ ses_rupture' = ses_rupture \cup
           {[id |-> Cardinality(ses_rupture) + 1,
             rupture_id |-> prob_rupture.id,
             ses_id |-> ses_ordinal,
             tag |-> FormatTag(
                 RowById(ses_collection,
                         prob_rupture.ses_collection_id).ordinal,
                 ses_ordinal, source_id, rupt_no, rupt_occ),
             seed |-> seed]}
    /\ UNCHANGED <<ses_collection, probabilistic_rupture, gmf_data,
                   gmf_call, frameGmf>>

\* The event based calculator saves the ground motion values of some
\* rupture occurrences: for each site one row of hzrdr.gmf_data with the
\* ids of the occurrences and their values at the site.
SaveGmfData(ids) ==
    /\ gmf_call = NoCall
    /\ gmf_data = {}
    /\ ids # {}
    /\ LET rows == OrderById({y \in ses_rupture : y.id \in ids})
       IN  gmf_data' =
               {[imt |-> imts[1], site_id |-> sitecol.sites[s],
                 rupture_ids |-> [k \in DOMAIN rows |-> rows[k].id],
                 gmvs |-> [k \in DOMAIN rows |->
                              <<rows[k].rupture_id, sitecol.sites[s]>>]] :
                   s \in DOMAIN sitecol.sites}
    /\ UNCHANGED <<ses_collection, probabilistic_rupture, ses_rupture,
                   gmf_call, frameGmf>>

\* list(ses) for a SES of the job.
IterateSES(ses) ==
    /\ gmf_call = NoCall
    /\ \E order \in order_by_tag(ses_rupture) :
          gmf_call' = [call |-> "SES.__iter__", ses |-> ses,
                       raised |-> FALSE,
                       yielded |-> SES_iter(ses, order)]
    /\ UNCHANGED <<ses_collection, probabilistic_rupture, ses_rupture,
                   gmf_data, frameGmf>>

\* list(gmf.by_rupture(sitecol, ses_collection_id, ses_ordinal))
CallByRupture(ses_collection_id, ses_ordinal) ==
    /\ gmf_call = NoCall
    /\ \E order \in order_by_tag(ses_rupture) :
          LET by == by_rupture(sitecol, ses_collection_id, ses_ordinal,
                               order, FALSE)
          IN  gmf_call' = [call |-> "Gmf.by_rupture",
                           ses_collection_id |-> ses_collection_id,
                           ses_ordinal |-> ses_ordinal,
                           raised |-> by.raised, yielded |-> by.yielded]
    /\ UNCHANGED <<ses_collection, probabilistic_rupture, ses_rupture,
                   gmf_data, frameGmf>>

\* list(gmf.iternew())
IterNew ==
    /\ gmf_call = NoCall
    /\ \E orders \in [Range(AllSES) -> order_by_tag(ses_rupture)] :
          \E lenient \in BOOLEAN :
              LET new == iternew(AllSES, orders, lenient)
              IN  gmf_call' = [call |-> "Gmf.iternew",
                               raised |-> new.raised,
                               yielded |-> new.yielded]
    /\ UNCHANGED <<ses_collection, probabilistic_rupture, ses_rupture,
                   gmf_data, frameGmf>>

\* list(gmf)
Iter ==
    /\ gmf_call = NoCall
    /\ gmf_call' = [call |-> "Gmf.__iter__", raised |-> FALSE,
                    yielded |-> iter(AllSES)]
    /\ UNCHANGED <<ses_collection, probabilistic_rupture, ses_rupture,
                   gmf_data, frameGmf>>

CreateSomeSESRupture ==
    \E prob_rupture \in probabilistic_rupture :
        \E ses_ordinal \in 1..ses_per_logic_tree_path :
            \E source_id \in SourceIds, rupt_no \in RuptNos :
                \E rupt_occ \in RuptOccs, seed \in Seeds :
                    SESRupture_create(prob_rupture, ses_ordinal, source_id,
                                      rupt_no, rupt_occ, seed)

\* The values of the arguments ses_collection_id and ses_ordinal.
OptionalIds(ids) == {Nothing} \cup {Some(id) : id \in ids}

NextGmf ==
    \/ CreateSomeSESRupture
    \/ \E ses \in Range(AllSES) : IterateSES(ses)
    \/ \E ses_collection_id \in OptionalIds({c.id : c \in ses_collection}) :
          \E ses_ordinal \in OptionalIds(1..ses_per_logic_tree_path) :
              CallByRupture(ses_collection_id, ses_ordinal)

NextGmfExport ==
    \/ CreateSomeSESRupture
    \/ \E ids \in SUBSET {y.id : y \in ses_rupture} : SaveGmfData(ids)
    \/ IterNew
    \/ Iter

(***************************************************************************)
(* Claims on the ground motion fields.                                     *)
(***************************************************************************)
\* The rows of hzrdr.ses_rupture of a SES.
RowsOfSES(ses) == {row \in ses_rupture : InSES(row, ses)}

\* The rupture occurrences a call of by_rupture yielded for a SES, in the
\* order it yielded them.
YieldedOfSES(ses) ==
    LET OfSES(triple) == InSES(triple.ses_rup, ses)
        triples == SelectSeq(gmf_call.yielded, OfSES)
    IN  [i \in DOMAIN triples |-> triples[i].ses_rup]

\* Each of the rows exactly once, in ascending order of the tags.
IsInTagOrder(rows, table) ==
    /\ Range(rows) = table
    /\ Len(rows) = Cardinality(table)
    /\ \A i, j \in DOMAIN rows :
          i < j => LexLeq(rows[i].tag, rows[j].tag)

\* by_rupture visits the SES: its arguments do not filter it out.
IsVisited(ses) ==
    /\ gmf_call.ses_collection_id \in {Nothing, Some(ses.ses_collection.id)}
    /\ gmf_call.ses_ordinal \in {Nothing, Some(ses.ordinal)}

\* C5: iterating a SES yields exactly the SESRuptures of its collection
\* whose ses_id is the ordinal of the SES, in ascending lexicographic
\* order of their tags; by_rupture yields the rupture occurrences of each
\* SES it visits in that same order.
C5_SESIteratesInTagOrder ==
    /\ gmf_call.call = "SES.__iter__" =>
           IsInTagOrder(gmf_call.yielded, RowsOfSES(gmf_call.ses))
    /\ gmf_call.call = "Gmf.by_rupture" =>
           \A ses \in Range(AllSES) :
               IF IsVisited(ses)
               THEN IsInTagOrder(YieldedOfSES(ses), RowsOfSES(ses))
               ELSE YieldedOfSES(ses) = <<>>

\* A SES was iterated whose two occurrences come in the order of their
\* tags and not in the order they were saved in ("src=10|" before
\* "src=1|"), while another occurrence of the table is left out.
C5_Witness ==
    /\ gmf_call.call = "SES.__iter__"
    /\ Len(gmf_call.yielded) = 2
    /\ gmf_call.yielded[1].id > gmf_call.yielded[2].id
    /\ gmf_call.yielded[1].tag # gmf_call.yielded[2].tag

\* The sites of the complete collection at the indices a rupture keeps.
SitesKept(rupture) ==
    {sitecol.sites[i] :
        i \in {i \in DOMAIN sitecol.sites :
                  \/ rupture.site_indices = Nothing
                  \/ i - 1 \in Range(rupture.site_indices[1])}}

\* C6: by_rupture yields, with each rupture occurrence, the sites of its
\* own rupture: the sites at site_indices when they are set, the whole site
\* collection when they are None; and a ground motion value for each of
\* those sites and for no other.
C6_SiteIndicesHonoured ==
    gmf_call.call = "Gmf.by_rupture" =>
        \A i \in DOMAIN gmf_call.yielded :
            LET triple == gmf_call.yielded[i]
                rupture == RowById(probabilistic_rupture,
                                   triple.ses_rup.rupture_id)
            IN  /\ Range(triple.sites.sites) = SitesKept(rupture)
                /\ rupture.site_indices = Nothing => triple.sites = sitecol
                /\ \A key \in DOMAIN triple.gmf_dict :
                      {gmv[2] : gmv \in Range(triple.gmf_dict[key])}
                          = SitesKept(rupture)

\* by_rupture yielded, one after the other in one SES, an occurrence of a
\* rupture with site_indices and an occurrence of a rupture without.
C6_Witness ==
    /\ gmf_call.call = "Gmf.by_rupture"
    /\ \E i \in DOMAIN gmf_call.yielded :
          /\ i + 1 \in DOMAIN gmf_call.yielded
          /\ gmf_call.yielded[i].ses_rup.ses_id
                 = gmf_call.yielded[i + 1].ses_rup.ses_id
          /\ gmf_call.yielded[i].sites # sitecol
          /\ gmf_call.yielded[i + 1].sites = sitecol

\* The SES has a ground motion field: for Gmf.__iter__, a row of gmf_data
\* holds a value of one of its rupture occurrences; for Gmf.iternew, which
\* computes the fields anew, it has a rupture occurrence.
HasFields(ses) ==
    IF gmf_call.call = "Gmf.__iter__"
    THEN \E d \in gmf_data : \E y \in RowsOfSES(ses) :
             y.id \in Range(d.rupture_ids)
    ELSE RowsOfSES(ses) # {}

\* No GmfSet is yielded with an empty list of fields, and every SES with a
\* field yields exactly one GmfSet.
EmptyEventSetsSkipped ==
    /\ \A i \in DOMAIN gmf_call.yielded : gmf_call.yielded[i].gmfs # <<>>
    /\ \A ses \in Range(AllSES) :
          HasFields(ses) =>
              Cardinality({i \in DOMAIN gmf_call.yielded :
                              gmf_call.yielded[i].ses = ses}) = 1

\* C7: Gmf.__iter__ and Gmf.iternew skip the event sets that generate no
\* ground motion field: no GmfSet is yielded with an empty list of fields,
\* and every event set that has a field yields exactly one GmfSet.
C7_EmptyEventSetsSkipped ==
    gmf_call.call \in {"Gmf.__iter__", "Gmf.iternew"} =>
        EmptyEventSetsSkipped

\* What holds of the code: the claim for Gmf.__iter__, and for Gmf.iternew
\* that it yields no GmfSet without fields.
EmptyEventSetsSkippedByIter ==
    /\ gmf_call.call = "Gmf.__iter__" => EmptyEventSetsSkipped
    /\ gmf_call.call = "Gmf.iternew" =>
           \A i \in DOMAIN gmf_call.yielded :
               gmf_call.yielded[i].gmfs # <<>>

\* Gmf.__iter__ skipped one SES and yielded a GmfSet for another.
IterSkippedAnEventSet ==
    /\ gmf_call.call = "Gmf.__iter__"
    /\ Len(gmf_call.yielded) = 1
    /\ \E ses \in Range(AllSES) :
          RowsOfSES(ses) # {} /\ gmf_call.yielded[1].ses # ses

\* Gmf.iternew ran to its end without raising and yielded nothing, while a
\* SES has a rupture occurrence.
IterNewMissedAnEventSet ==
    /\ gmf_call.call = "Gmf.iternew"
    /\ ~ gmf_call.raised
    /\ gmf_call.yielded = <<>>
    /\ \E ses \in Range(AllSES) : RowsOfSES(ses) # {}

\* The fields of a GmfSet are those of the rupture occurrences of its SES:
\* for every occurrence one field for each (gsim, imt), with the tag of the
\* occurrence, and no other field.
FieldsOfOwnSES(gmfset) ==
    /\ \A row \in RowsOfSES(gmfset.ses) :
          Cardinality({k \in DOMAIN gmfset.gmfs :
                          gmfset.gmfs[k].tag = row.tag}) = Len(gmf_dict_keys)
    /\ \A k \in DOMAIN gmfset.gmfs :
          \E row \in RowsOfSES(gmfset.ses) : row.tag = gmfset.gmfs[k].tag

\* C25: Gmf.iternew groups the ground motion fields by stochastic event
\* set: an event set with rupture occurrences yields a GmfSet, and the
\* GmfSet of an event set holds one field for each (gsim, imt) and each
\* rupture occurrence of that event set of that collection, with the tag
\* of the occurrence, and no field of a rupture occurrence of another
\* event set or collection.
C25_IterNewGroupsBySES ==
    gmf_call.call = "Gmf.iternew" =>
        /\ \A ses \in Range(AllSES) :
              RowsOfSES(ses) # {} =>
                  \E i \in DOMAIN gmf_call.yielded :
                      gmf_call.yielded[i].ses = ses
        /\ \A i \in DOMAIN gmf_call.yielded :
              FieldsOfOwnSES(gmf_call.yielded[i])

\* Gmf.iternew yielded, for an event set, a field of a rupture occurrence
\* of another collection.
IterNewMixedCollections ==
    /\ gmf_call.call = "Gmf.iternew"
    /\ \E i \in DOMAIN gmf_call.yielded :
          \E k \in DOMAIN gmf_call.yielded[i].gmfs :
              \E row \in ses_rupture :
                  /\ row.tag = gmf_call.yielded[i].gmfs[k].tag
                  /\ ~ InSES(row, gmf_call.yielded[i].ses)

(***************************************************************************)
(* GMPE EVALUATOR: the terms of Bindi et al. (2014), bindi_2014.py.        *)
(*                                                                         *)
(* Magnitudes are counted in quarters (6.75 is 27) and rakes in tenths of  *)
(* a degree (149.9 is 1499).  The coefficient row C is an argument of      *)
(* every term; the rows below have small whole coefficients, pairwise      *)
(* different where a term has to tell them apart.  A term built from a     *)
(* magnitude difference d (in quarters) is returned in sixteenths:         *)
(* 16 * (e + b * d/4 + c * (d/4)^2) = 16 * e + 4 * b * d + c * d^2.        *)
(***************************************************************************)
\* CONSTS["Mref"] = 5.5, in quarters
Mref == 22

\* CONSTS["Mh"] = 6.75, in quarters
Mh == 27

\* Magnitudes 4.0 to 8.5 in steps of 0.25.
Magnitudes == 16..34

\* Rakes from -180 to 180 degrees (the range of a rake angle): every five
\* degrees, and a tenth of a degree on either side of every class boundary.
Rakes ==
    {r \in -1800..1800 :
        \/ r % 50 = 0
        \/ \E b \in {300, 1500} : Abs(Abs(r) - b) <= 1}

CoeffRows ==
    [e1 : {3}, b1 : {-1, 2}, b2 : {-1}, b3 : {0, 1},
     sofN : {-4}, sofR : {8}, sofS : {-3, 0}]

\* The branch of _get_magnitude_scaling_term: "if mag < CONSTS['Mh']".
magnitude_scaling_branch_le(mag) ==
    IF mag <= Mh THEN "quadratic" ELSE "linear"

magnitude_scaling_branch(mag) ==
    IF mag < Mh THEN "quadratic" ELSE "linear"

\* A slip in the hinge: dmag = mag - CONSTS["Mref"]
get_magnitude_scaling_term_mref(C, mag) ==
    LET dmag == mag - Mref
    IN  IF magnitude_scaling_branch(mag) = "quadratic"
        THEN 16 * C.e1 + 4 * (C.b1 * dmag) + C.b2 * (dmag * dmag)
        ELSE 16 * C.e1 + 4 * (C.b3 * dmag)

\* _get_magnitude_scaling_term(C, mag), in sixteenths.
get_magnitude_scaling_term(C, mag) ==
    LET dmag == mag - Mh
    IN  IF magnitude_scaling_branch(mag) = "quadratic"
        THEN 16 * C.e1 + 4 * (C.b1 * dmag) + C.b2 * (dmag * dmag)
        ELSE 16 * C.e1 + 4 * (C.b3 * dmag)

\* A slip in the strike-slip test: < in place of <=
style_of_faulting_weights_strict(rake) ==
    IF Abs(rake) < 300 \/ (1800 - Abs(rake)) < 300
    THEN [SS |-> 1, NS |-> 0, RS |-> 0]
    ELSE IF rake > 300 /\ rake < 1500
         THEN [SS |-> 0, NS |-> 0, RS |-> 1]
         ELSE [SS |-> 0, NS |-> 1, RS |-> 0]

\* The weights SS, NS, RS _get_style_of_faulting_term sets from the rake.
style_of_faulting_weights(rake) ==
    IF Abs(rake) <= 300 \/ (1800 - Abs(rake)) <= 300
    THEN [SS |-> 1, NS |-> 0, RS |-> 0]
    ELSE IF rake > 300 /\ rake < 1500
         THEN [SS |-> 0, NS |-> 0, RS |-> 1]
         ELSE [SS |-> 0, NS |-> 1, RS |-> 0]

\* _get_style_of_faulting_term(C, rup)
get_style_of_faulting_term(C, rupture) ==
    LET w == style_of_faulting_weights(rupture.rake)
    IN  (C.sofN * w.NS) + (C.sofR * w.RS) + (C.sofS * w.SS)

\* The arguments of the terms: any rupture and any coefficient row.
StartBindi ==
    /\ rup \in [mag : Magnitudes, rake : Rakes]
    /\ coeffs \in CoeffRows
    /\ gmpe_out = NoCall

IdleBindi ==
    /\ rup = None
    /\ coeffs = None
    /\ gmpe_out = NoCall

\* A call of _get_magnitude_scaling_term(C, rup.mag).
MagnitudeScalingTerm ==
    /\ gmpe_out' = [call |-> "_get_magnitude_scaling_term",
                    branch |-> magnitude_scaling_branch(rup.mag),
                    value |-> get_magnitude_scaling_term(coeffs, rup.mag)]
    /\ UNCHANGED <<rup, coeffs, frameBindi>>

\* A call of _get_style_of_faulting_term(C, rup).
StyleOfFaultingTerm ==
    /\ gmpe_out' = [call |-> "_get_style_of_faulting_term",
                    value |-> get_style_of_faulting_term(coeffs, rup)]
    /\ UNCHANGED <<rup, coeffs, frameBindi>>

NextBindi ==
    \/ MagnitudeScalingTerm
    \/ StyleOfFaultingTerm

(***************************************************************************)
(* Claims on the terms of the GMPE.                                        *)
(***************************************************************************)
\* The classes as the specification words them, for a rake in tenths of a
\* degree.
IsStrikeSlip(rake) == Abs(rake) <= 300 \/ Abs(1800 - Abs(rake)) <= 300

IsReverse(rake) == 300 < rake /\ rake < 1500

\* C8: every rake from -180 to 180 degrees gets exactly one class,
\* strike-slip iff |rake| <= 30 or |180 - |rake|| <= 30, reverse iff
\* 30 < rake < 150, normal otherwise (so 30 and 150 are strike-slip and
\* 149.9 is reverse), and the term returned is the coefficient of that class.
C8_StyleOfFaultingClasses ==
    gmpe_out.call = "_get_style_of_faulting_term" =>
        LET w == style_of_faulting_weights(rup.rake)
        IN  /\ w.SS + w.NS + w.RS = 1
            /\ {w.SS, w.NS, w.RS} \subseteq {0, 1}
            /\ w.SS = 1 <=> IsStrikeSlip(rup.rake)
            /\ w.RS = 1 <=> IsReverse(rup.rake)
            /\ w.NS = 1 <=> ~IsStrikeSlip(rup.rake) /\ ~IsReverse(rup.rake)
            /\ gmpe_out.value =
                   IF IsStrikeSlip(rup.rake) THEN coeffs.sofS
                   ELSE IF IsReverse(rup.rake) THEN coeffs.sofR
                   ELSE coeffs.sofN
            /\ rup.rake \in {300, 1500} => gmpe_out.value = coeffs.sofS
            /\ rup.rake = 1499 => gmpe_out.value = coeffs.sofR

\* C8 witness: the term of a rake of 150 degrees is the strike-slip
\* coefficient, which is not the reverse one.
C8_Witness ==
    /\ gmpe_out.call = "_get_style_of_faulting_term"
    /\ rup.rake = 1500
    /\ gmpe_out.value = coeffs.sofS
    /\ gmpe_out.value # coeffs.sofR

\* C9 as stated: at a magnitude equal to Mh the term is computed with the
\* quadratic branch, the one of b1 and b2.
C9_Original ==
    (gmpe_out.call = "_get_magnitude_scaling_term" /\ rup.mag = Mh) =>
        gmpe_out.branch = "quadratic"

\* C9 as amended: at a magnitude equal to Mh the term is computed with the
\* linear branch, the one of b3, and is e1; the quadratic branch is taken
\* for the magnitudes strictly below Mh and for no other.
C9_HingeTakesLinearBranch ==
    gmpe_out.call = "_get_magnitude_scaling_term" =>
        /\ rup.mag = Mh =>
               /\ gmpe_out.branch = "linear"
               /\ gmpe_out.value = 16 * coeffs.e1
        /\ gmpe_out.branch = "quadratic" <=> rup.mag < Mh

\* C9 witness: the term was computed at the hinge magnitude.
C9_Witness ==
    /\ gmpe_out.call = "_get_magnitude_scaling_term"
    /\ rup.mag = Mh
    /\ gmpe_out.branch = "linear"

\* C10 as stated: below Mh the term is e1 + b1 (mag - Mref) +
\* b2 (mag - Mref)^2, at or above Mh it is linear with the coefficient b3.
C10_Original ==
    gmpe_out.call = "_get_magnitude_scaling_term" =>
        /\ rup.mag < Mh =>
               gmpe_out.value =
                   16 * coeffs.e1 + 4 * coeffs.b1 * (rup.mag - Mref)
                   + coeffs.b2 * (rup.mag - Mref) * (rup.mag - Mref)
        /\ rup.mag >= Mh =>
               gmpe_out.value =
                   16 * coeffs.e1 + 4 * coeffs.b3 * (rup.mag - Mh)

\* C10 as amended: the term is piecewise in mag around the hinge Mh and is
\* measured from Mh, not from Mref: below Mh it is e1 + b1 (mag - Mh) +
\* b2 (mag - Mh)^2, at or above Mh it is e1 + b3 (mag - Mh).
C10_PiecewiseAroundMh ==
    gmpe_out.call = "_get_magnitude_scaling_term" =>
        /\ rup.mag < Mh =>
               gmpe_out.value =
                   16 * coeffs.e1 + 4 * coeffs.b1 * (rup.mag - Mh)
                   + coeffs.b2 * (rup.mag - Mh) * (rup.mag - Mh)
        /\ rup.mag >= Mh =>
               gmpe_out.value =
                   16 * coeffs.e1 + 4 * coeffs.b3 * (rup.mag - Mh)

\* C10 witness: both pieces differ from e1, here the quadratic one, at a
\* magnitude that is neither Mh nor Mref.
C10_Witness ==
    /\ gmpe_out.call = "_get_magnitude_scaling_term"
    /\ rup.mag < Mref
    /\ gmpe_out.branch = "quadratic"
    /\ gmpe_out.value # 16 * coeffs.e1

(***************************************************************************)
(* GMPE EVALUATOR: _get_site_amplification_term_2, _get_mean and           *)
(* get_mean_and_stddevs of the six GMPE classes of bindi_2014.py.          *)
(*                                                                         *)
(* Vs30 is counted in tenths of a metre per second (359.9 is 3599).  The   *)
(* distance term and the site term of the "base" kind are logarithms of    *)
(* their arguments: they are kept as the arguments they are computed       *)
(* from.  The mean of a site is kept as its four terms, and its            *)
(* conversion ln(10 ^ (imean + shift) / divisor) as the shift and the      *)
(* divisor.  The name of an intensity measure type is the sequence of the  *)
(* codes of its characters, so that `imt.name in "SA PGA"` is a test on    *)
(* substrings.  The standard deviations are not modelled.                  *)
(***************************************************************************)
\* The GMPE classes: kind, sof and the one element of REQUIRES_DISTANCES.
GsimClasses ==
    {[name |-> "BindiEtAl2014Rjb", kind |-> "base", sof |-> TRUE,
      dist_type |-> "rjb"],
     [name |-> "BindiEtAl2014RjbEC8", kind |-> "EC8", sof |-> TRUE,
      dist_type |-> "rjb"],
     [name |-> "BindiEtAl2014RjbEC8NoSOF", kind |-> "EC8", sof |-> FALSE,
      dist_type |-> "rjb"],
     [name |-> "BindiEtAl2014Rhyp", kind |-> "base", sof |-> TRUE,
      dist_type |-> "rhypo"],
     [name |-> "BindiEtAl2014RhypEC8", kind |-> "EC8", sof |-> TRUE,
      dist_type |-> "rhypo"],
     [name |-> "BindiEtAl2014RhypEC8NoSOF", kind |-> "EC8", sof |-> FALSE,
      dist_type |-> "rhypo"]}

\* The names "PGA", "PGV", "SA" and "PGD" of intensity measure types.
PGA == <<80, 71, 65>>

PGV == <<80, 71, 86>>

SA == <<83, 65>>

PGD == <<80, 71, 68>>

\* The intensity measure types a caller may ask for: the three of
\* DEFINED_FOR_INTENSITY_MEASURE_TYPES and one that is not supported.
Imts == {[name |-> n] : n \in {PGA, PGV, SA, PGD}}

\* The rows of COEFFS: pgv, pga and the spectral periods.
COEFFS_keys == {PGV, PGA, SA}

\* A coefficient row for the mean, with whole coefficients.
MeanCoeffRows ==
    [e1 : {3}, b1 : {2}, b2 : {-1}, b3 : {1},
     sofN : {-4}, sofR : {8}, sofS : {-3},
     eB : {1}, eC : {2}, eD : {5}]

MeanMagnitudes == {24, 27, 30}

MeanRakes == {-900, 0, 900, 1800}

\* Vs30 on either side of every class boundary, in tenths of m/s.
Vs30s == {1000, 1799, 1800, 3599, 3600, 7999, 8000, 12000}

\* The arrays sites.vs30: one or two sites.
Vs30Arrays == UNION {[1..n -> Vs30s] : n \in {1, 2}}

\* needle in haystack, for two strings.
IsSubstring(needle, haystack) ==
    \E start \in 0..(Len(haystack) - Len(needle)) :
        \A i \in 1..Len(needle) : haystack[start + i] = needle[i]

\* f_s[idx] = value
MaskedAssign(f_s, idx, value) ==
    [i \in DOMAIN f_s |-> IF idx[i] THEN value ELSE f_s[i]]

\* A slip in the class C test: vs30 <= 360.0
site_class_C_le(vs30) ==
    [i \in DOMAIN vs30 |-> vs30[i] <= 3600 /\ vs30[i] >= 1800]

\* np.logical_and(vs30 < 360.0, vs30 >= 180.0)
site_class_C(vs30) ==
    [i \in DOMAIN vs30 |-> vs30[i] < 3600 /\ vs30[i] >= 1800]

\* _get_site_amplification_term_2(kind, C, vs30)
get_site_amplification_term_2(C, vs30) ==
    LET zeros == [i \in DOMAIN vs30 |-> 0]
        class_B == [i \in DOMAIN vs30 |->
                       vs30[i] < 8000 /\ vs30[i] >= 3600]
        class_D == [i \in DOMAIN vs30 |-> vs30[i] < 1800]
        f_B == MaskedAssign(zeros, class_B, C.eB)
        f_C == MaskedAssign(f_B, site_class_C(vs30), C.eC)
    IN  MaskedAssign(f_C, class_D, C.eD)

\* _get_site_amplification_term_1(kind, C, vs30):
\* C["gamma"] * log10(vs30 / Vref), kept as its argument.
get_site_amplification_term_1(C, vs30) ==
    [i \in DOMAIN vs30 |-> [gamma_log10_of |-> vs30[i]]]

\* _get_site_amplification_term(kind, C, vs30), a CallableDict on kind.
get_site_amplification_term(kind, C, vs30) ==
    IF kind = "EC8"
    THEN get_site_amplification_term_2(C, vs30)
    ELSE get_site_amplification_term_1(C, vs30)

\* _get_distance_scaling_term(C, rval, mag), kept as its arguments.
get_distance_scaling_term(C, rval, mag) ==
    [i \in DOMAIN rval |-> [rval |-> rval[i], mag |-> mag]]

\* A slip: the style-of-faulting term is computed whatever sof is.
sof_term_always(sof, C, rupture) ==
    [value |-> get_style_of_faulting_term(C, rupture), read |-> {"rake"}]

\* sof_term = _get_style_of_faulting_term(C, rup) if sof else 0.
\* with the attributes of the rupture that are read.
sof_term(sof, C, rupture) ==
    IF sof
    THEN [value |-> get_style_of_faulting_term(C, rupture),
          read |-> {"rake"}]
    ELSE [value |-> 0, read |-> {}]

\* _get_mean(kind, sof, C, rup, dists, sites): for each site the four
\* terms of the sum, and the attributes of the rupture that are read.
get_mean(kind, sof, C, rupture, rval, vs30) ==
    LET sof_t == sof_term(sof, C, rupture)
        magnitude == get_magnitude_scaling_term(C, rupture.mag)
        distance == get_distance_scaling_term(C, rval, rupture.mag)
        site == get_site_amplification_term(kind, C, vs30)
    IN  [imean |-> [i \in DOMAIN vs30 |->
                       [magnitude |-> magnitude, distance |-> distance[i],
                        site |-> site[i], sof |-> sof_t.value]],
         read |-> {"mag"} \cup sof_t.read]

\* A slip in the test of the unit conversion: every "PG..." takes it.
converts_to_g_by_prefix(name) == SubSeq(name, 1, 2) = <<80, 71>>

\* imt.name in "SA PGA"
converts_to_g(name) == IsSubstring(name, <<83, 65, 32, 80, 71, 65>>)

\* get_mean_and_stddevs(sites, rup, dists, imt, stddev_types): KeyError
\* from COEFFS[imt] for an imt that has no row; else the mean of each site:
\* ln(10 ^ (imean - 2) / g) or ln(10 ^ imean).
get_mean_and_stddevs(self, C, vs30, rupture, distances, imt_asked) ==
    IF imt_asked.name \notin COEFFS_keys
    THEN [raised |-> "KeyError", mean |-> <<>>, read |-> {}]
    ELSE LET m == get_mean(self.kind, self.sof, C, rupture,
                           distances[self.dist_type], vs30)
         IN  [raised |-> None,
              mean |-> [i \in DOMAIN m.imean |->
                           IF converts_to_g(imt_asked.name)
                           THEN [ln_of_10_to |-> m.imean[i], shift |-> -2,
                                 divided_by |-> "g"]
                           ELSE [ln_of_10_to |-> m.imean[i], shift |-> 0,
                                 divided_by |-> None]],
              read |-> m.read]

\* The arguments of a call: a GMPE class, an intensity measure type, a row
\* of coefficients, a rupture, the sctx and their distances.
StartMean ==
    /\ gmpe \in GsimClasses
    /\ imt \in Imts
    /\ coeffs \in MeanCoeffRows
    /\ rup \in [mag : MeanMagnitudes, rake : MeanRakes]
    /\ sctx \in {[vs30 |-> a] : a \in Vs30Arrays}
    /\ dctx = [rjb |-> [i \in DOMAIN sctx.vs30 |-> 10 * i],
                rhypo |-> [i \in DOMAIN sctx.vs30 |-> 10 * i + 5]]
    /\ gmpe_out = NoCall

IdleMean ==
    /\ gmpe = None
    /\ imt = None
    /\ sctx = None
    /\ dctx = None

\* A call of _get_site_amplification_term(kind, C, sctx.vs30).
SiteAmplificationTerm ==
    /\ gmpe_out' = [call |-> "_get_site_amplification_term",
                    value |-> get_site_amplification_term(
                                  gmpe.kind, coeffs, sctx.vs30)]
    /\ UNCHANGED <<rup, coeffs, gmpe, imt, sctx, dctx, frameMean>>

\* A call of gsim.get_mean_and_stddevs(sctx, rup, dctx, imt, ...).
GetMeanAndStddevs ==
    /\ LET r == get_mean_and_stddevs(gmpe, coeffs, sctx.vs30, rup, dctx,
                                     imt)
       IN  gmpe_out' = [call |-> "get_mean_and_stddevs",
                        raised |-> r.raised, mean |-> r.mean,
                        read |-> r.read]
    /\ UNCHANGED <<rup, coeffs, gmpe, imt, sctx, dctx, frameMean>>

NextMean ==
    \/ SiteAmplificationTerm
    \/ GetMeanAndStddevs

(***************************************************************************)
(* Claims on the mean of the GMPE.                                         *)
(***************************************************************************)
\* The EC8 site classes as the specification words them, for a Vs30 in
\* tenths of m/s: the classes a Vs30 is in.
EC8Classes(v) ==
    {c \in {"A", "B", "C", "D"} :
        \/ c = "A" /\ v >= 8000
        \/ c = "B" /\ 3600 <= v /\ v < 8000
        \/ c = "C" /\ 1800 <= v /\ v < 3600
        \/ c = "D" /\ v < 1800}

\* The term of a class for a coefficient row.
EC8Term(C, class) ==
    CASE class = "A" -> 0
      [] class = "B" -> C.eB
      [] class = "C" -> C.eC
      [] class = "D" -> C.eD

\* C11: for the EC8 variants every Vs30 is in exactly one class
\* (Vs30 >= 800 none, 360 <= Vs30 < 800 B, 180 <= Vs30 < 360 C,
\* Vs30 < 180 D), every site gets the term of its class (0, eB, eC, eD),
\* and the term of a site is the one it gets when it is alone in the array.
C11_EC8SiteClasses ==
    (gmpe_out.call = "_get_site_amplification_term" /\ gmpe.kind = "EC8") =>
        /\ DOMAIN gmpe_out.value = DOMAIN sctx.vs30
        /\ \A i \in DOMAIN sctx.vs30 :
              /\ Cardinality(EC8Classes(sctx.vs30[i])) = 1
              /\ \A class \in EC8Classes(sctx.vs30[i]) :
                    gmpe_out.value[i] = EC8Term(coeffs, class)
              /\ gmpe_out.value[i] =
                     get_site_amplification_term_2(
                         coeffs, <<sctx.vs30[i]>>)[1]

\* C11 witness: the term was computed for two sites on either side of the
\* boundary of 360 m/s: the site at 360 got eB and the site at 359.9 eC.
C11_Witness ==
    /\ gmpe_out.call = "_get_site_amplification_term"
    /\ gmpe.kind = "EC8"
    /\ sctx.vs30 = <<3600, 3599>>
    /\ gmpe_out.value = <<coeffs.eB, coeffs.eC>>
    /\ coeffs.eB # coeffs.eC

\* The GMPE classes that neglect the style of faulting.
NoSOFClasses == {"BindiEtAl2014RjbEC8NoSOF", "BindiEtAl2014RhypEC8NoSOF"}

\* C12: for the NoSOF variants the mean has no style-of-faulting term: an
\* evaluation that differs only in the rake of the rupture returns the same
\* mean, and the rake is never read.
C12_NoSOFIgnoresRake ==
    (gmpe_out.call = "get_mean_and_stddevs" /\ gmpe.name \in NoSOFClasses) =>
        /\ "rake" \notin gmpe_out.read
        /\ \A i \in DOMAIN gmpe_out.mean : gmpe_out.mean[i].ln_of_10_to.sof = 0
        /\ \A rake \in MeanRakes :
              get_mean_and_stddevs(gmpe, coeffs, sctx.vs30,
                                   [rup EXCEPT !.rake = rake], dctx,
                                   imt).mean = gmpe_out.mean

\* C12 witness: a NoSOF variant returned a mean for a reverse rupture, whose
\* style-of-faulting term is not the one of a strike-slip rupture.
C12_Witness ==
    /\ gmpe_out.call = "get_mean_and_stddevs"
    /\ gmpe.name = "BindiEtAl2014RjbEC8NoSOF"
    /\ gmpe_out.raised = None
    /\ rup.rake = 900
    /\ get_style_of_faulting_term(coeffs, rup)
           # get_style_of_faulting_term(coeffs, [rup EXCEPT !.rake = 0])

\* C13: the mean is divided by g (after the shift of imean by -2) if and
\* only if the intensity measure type is PGA or SA; for PGV it is the
\* natural logarithm of 10 ^ imean with no g; no other intensity measure
\* type that has coefficients takes the g branch.
C13_GOnlyForPGAAndSA ==
    (gmpe_out.call = "get_mean_and_stddevs" /\ gmpe_out.raised = None) =>
        \A i \in DOMAIN gmpe_out.mean :
            /\ gmpe_out.mean[i].divided_by = "g" <=> imt.name \in {PGA, SA}
            /\ gmpe_out.mean[i].divided_by = "g" <=>
                   gmpe_out.mean[i].shift = -2
            /\ imt.name = PGV =>
                   /\ gmpe_out.mean[i].divided_by = None
                   /\ gmpe_out.mean[i].shift = 0
            /\ imt.name \notin {PGA, SA} =>
                   gmpe_out.mean[i].divided_by = None

\* C13 witness: the mean of a PGV was returned, not divided by g.
C13_Witness ==
    /\ gmpe_out.call = "get_mean_and_stddevs"
    /\ imt.name = PGV
    /\ Len(gmpe_out.mean) = 2
    /\ gmpe_out.mean[1].divided_by = None

(***************************************************************************)
(* JOB PARAMETERS: OqJob.get_param.                                        *)
(*                                                                         *)
(* The rows of uiapi.job_param are saved from the dictionary of the        *)
(* parameters of a job: one row for a job and a name.  An argument         *)
(* `missing` that is not passed is Nothing (the sentinel RAISE_EXC); one   *)
(* that is passed is Some(value), the value None included.                 *)
(***************************************************************************)
\* Most rows of uiapi.job_param.
MaxJobParams == 2

OqJobs == {1, 2}

ParamNames == {"investigation_time", "truncation_level"}

ParamValues == {"50.0", "3"}

\* The values passed for `missing`.
MissingValues == {Nothing, Some(None), Some("1.0")}

\* A slip: the fallback is returned whenever one is passed.
get_param_fallback_first(job, name, missing) ==
    LET found == {p \in job_param : p.job = job /\ p.name = name}
    IN  IF missing # Nothing
        THEN [raised |-> None, returned |-> missing]
        ELSE IF found # {}
        THEN [raised |-> None,
              returned |-> Some((CHOOSE p \in found : TRUE).value)]
        ELSE [raised |-> "MissingParameter", returned |-> Nothing]

\* OqJob.get_param(name, missing=RAISE_EXC)
get_param(job, name, missing) ==
    LET found == {p \in job_param : p.job = job /\ p.name = name}
    IN  IF found # {}
        THEN [raised |-> None,
              returned |-> Some((CHOOSE p \in found : TRUE).value)]
        ELSE IF missing = Nothing
        THEN [raised |-> "MissingParameter", returned |-> Nothing]
        ELSE [raised |-> None, returned |-> missing]

StartParam ==
    /\ job_param = {}
    /\ get_param_call = NoCall

IdleParam ==
    /\ job_param = {}
    /\ get_param_call = NoCall

\* A parameter of a job is saved.
JobParamCreate(job, name, value) ==
    /\ Cardinality(job_param) < MaxJobParams
    /\ \A p \in job_param : ~ (p.job = job /\ p.name = name)
    /\ job_param' = job_param \cup
           {[id |-> Cardinality(job_param) + 1, job |-> job,
             name |-> name, value |-> value]}
    /\ get_param_call' = NoCall
    /\ UNCHANGED frameParam

\* job.get_param(name) or job.get_param(name, missing)
GetParam(job, name, missing) ==
    /\ LET r == get_param(job, name, missing)
       IN  get_param_call' = [call |-> "get_param", job |-> job,
                              name |-> name, missing |-> missing,
                              raised |-> r.raised, returned |-> r.returned]
    /\ UNCHANGED <<job_param, frameParam>>

NextParam ==
    \/ \E job \in OqJobs, name \in ParamNames, value \in ParamValues :
          JobParamCreate(job, name, value)
    \/ \E job \in OqJobs, name \in ParamNames, missing \in MissingValues :
          GetParam(job, name, missing)

(***************************************************************************)
(* Claims on the job parameters.                                           *)
(***************************************************************************)
\* The job of the last call has the parameter asked for.
ParamExists ==
    \E p \in job_param :
        p.job = get_param_call.job /\ p.name = get_param_call.name

\* What the last call of get_param did, against the table.
GetParamOutcome ==
    get_param_call.call = "get_param" =>
        /\ (~ ParamExists /\ get_param_call.missing = Nothing) =>
               /\ get_param_call.raised = "MissingParameter"
               /\ get_param_call.returned = Nothing
        /\ (~ ParamExists /\ get_param_call.missing # Nothing) =>
               /\ get_param_call.raised = None
               /\ get_param_call.returned = get_param_call.missing
        /\ ParamExists =>
               /\ get_param_call.raised = None
               /\ \E p \in job_param :
                     /\ p.job = get_param_call.job
                     /\ p.name = get_param_call.name
                     /\ get_param_call.returned = Some(p.value)

\* C14: get_param raises MissingParameter when the job has no parameter of
\* the name and no fallback is passed; returns the fallback, None included,
\* when one is passed; returns the stored value and never the fallback when
\* the parameter exists; and leaves the parameter table unchanged.
C14_GetParam ==
    /\ [] GetParamOutcome
    /\ [][get_param_call'.call = "get_param" => job_param' = job_param]_vars

\* C14 witness: a job has the parameter, another job does not; the job
\* that has it asked for it with a fallback and got the stored value.
C14_Witness ==
    /\ get_param_call.call = "get_param"
    /\ ParamExists
    /\ get_param_call.missing = Some(None)
    /\ get_param_call.returned # Some(None)
    /\ \E job \in OqJobs :
          \A p \in job_param :
              ~ (p.job = job /\ p.name = get_param_call.name)

\* get_param raised MissingParameter.
GetParamRaised ==
    /\ get_param_call.call = "get_param"
    /\ get_param_call.raised = "MissingParameter"
    /\ job_param # {}

(***************************************************************************)
(* RISK CALCULATION: RiskCalculation.hazard_outputs.                       *)
(*                                                                         *)
(* A row of output_set is an Output of a hazard job with the realization   *)
(* of its HazardCurve or Gmf row: Some(realization), or Nothing for the    *)
(* mean and quantile curves (HazardCurve.lt_realization is NULL) and for   *)
(* the outputs that have no such row.  Gmf.lt_realization is NOT NULL.     *)
(***************************************************************************)
\* Most rows of uiapi.output.
MaxOutputs == 2

HazardJobs == {1, 2}

CALC_MODE_CHOICES ==
    {"classical_risk", "classical_bcr", "event_based_risk",
     "event_based_fr", "scenario_risk", "scenario_damage",
     "event_based_bcr"}

\* The output types and realizations of the outputs of a hazard job.
HazardOutputKinds ==
    {[output_type |-> "hazard_curve_multi", lt_realization |-> Some(1)],
     [output_type |-> "hazard_curve_multi", lt_realization |-> Nothing],
     [output_type |-> "gmf", lt_realization |-> Some(1)],
     [output_type |-> "ses", lt_realization |-> Nothing],
     [output_type |-> "gmf_scenario", lt_realization |-> Nothing]}

\* The output type that the filters of a calculation mode ask for.
filters_output_type(calculation_mode) ==
    IF calculation_mode \in {"classical_risk", "classical_bcr"}
    THEN "hazard_curve_multi"
    ELSE IF calculation_mode \in {"event_based_risk", "event_based_bcr"}
    THEN "gmf"
    ELSE IF calculation_mode = "event_based_fr"
    THEN "ses"
    ELSE IF calculation_mode \in {"scenario_risk", "scenario_damage"}
    THEN "gmf_scenario"
    ELSE None

\* A slip: the filters ask for the output type and nothing else.
filters_realization_isnull_any(calculation_mode) == FALSE

\* hazard_curve__lt_realization__isnull=False,
\* gmf__lt_realization__isnull=False
filters_realization_isnull(calculation_mode) ==
    calculation_mode \in {"classical_risk", "classical_bcr",
                          "event_based_risk", "event_based_bcr"}

\* self.hazard_calculation.output_set.filter(**filters)
output_set_filter(hazard_calculation, calculation_mode) ==
    {o \in output_set :
        /\ o.oq_job = hazard_calculation
        /\ o.output_type = filters_output_type(calculation_mode)
        /\ filters_realization_isnull(calculation_mode) =>
               o.lt_realization # Nothing}

\* RiskCalculation.hazard_outputs: the ids of the outputs returned.
hazard_outputs(rc) ==
    IF rc.hazard_output # Nothing
    THEN [raised |-> None, returned |-> <<rc.hazard_output[1]>>]
    ELSE IF rc.hazard_calculation # Nothing
    THEN IF filters_output_type(rc.calculation_mode) = None
         THEN [raised |-> "NotImplementedError", returned |-> <<>>]
         ELSE LET rows == OrderById(output_set_filter(
                              rc.hazard_calculation[1], rc.calculation_mode))
              IN  [raised |-> None,
                   returned |-> [i \in DOMAIN rows |-> rows[i].id]]
    ELSE [raised |-> "RuntimeError", returned |-> <<>>]

StartRisk ==
    /\ risk_calculation \in
           [calculation_mode : CALC_MODE_CHOICES,
            hazard_output : {Nothing},
            hazard_calculation : {Nothing} \cup {Some(j) : j \in HazardJobs}]
    /\ output_set = {}
    /\ hazard_outputs_call = NoCall

IdleRisk ==
    /\ risk_calculation = None
    /\ output_set = {}
    /\ hazard_outputs_call = NoCall

\* A hazard job saves an output.
OutputCreate(job, kind) ==
    /\ Cardinality(output_set) < MaxOutputs
    /\ output_set' = output_set \cup
           {[id |-> Cardinality(output_set) + 1, oq_job |-> job,
             output_type |-> kind.output_type,
             lt_realization |-> kind.lt_realization]}
    /\ hazard_outputs_call' = NoCall
    /\ UNCHANGED <<risk_calculation, frameRisk>>

\* The risk calculation is given a hazard output of the table, or none.
SetHazardOutput(ho) ==
    /\ ho # risk_calculation.hazard_output
    /\ ho # Nothing => \E o \in output_set : o.id = ho[1]
    /\ risk_calculation' = [risk_calculation EXCEPT !.hazard_output = ho]
    /\ hazard_outputs_call' = NoCall
    /\ UNCHANGED <<output_set, frameRisk>>

\* rc.hazard_outputs()
HazardOutputs ==
    /\ LET r == hazard_outputs(risk_calculation)
       IN  hazard_outputs_call' = [call |-> "hazard_outputs",
                                   raised |-> r.raised,
                                   returned |-> r.returned]
    /\ UNCHANGED <<risk_calculation, output_set, frameRisk>>

NextRisk ==
    \/ \E job \in HazardJobs, kind \in HazardOutputKinds :
          OutputCreate(job, kind)
    \/ \E ho \in {Nothing} \cup {Some(i) : i \in 1..(MaxOutputs + 1)} :
          SetHazardOutput(ho)
    \/ HazardOutputs

(***************************************************************************)
(* Claims on the risk calculation.                                         *)
(***************************************************************************)
\* The ids in a sequence increase.
IdsIncrease(ids) == \A i, j \in DOMAIN ids : i < j => ids[i] < ids[j]

\* The outputs of the hazard calculation that have the type of the mode.
OutputsOfModeType ==
    {o \in output_set :
        /\ Some(o.oq_job) = risk_calculation.hazard_calculation
        /\ o.output_type = filters_output_type(risk_calculation.calculation_mode)}

\* Those of them that the code returns: for the classical and the
\* event based modes, the ones that belong to a realization.
OutputsOfModeTypeAndRealization ==
    {o \in OutputsOfModeType :
        risk_calculation.calculation_mode \in
            {"classical_risk", "classical_bcr",
             "event_based_risk", "event_based_bcr"}
        => o.lt_realization # Nothing}

\* The priority of hazard_outputs, the hazard calculation returning rows.
HazardOutputsResolve(rows) ==
    hazard_outputs_call.call = "hazard_outputs" =>
        /\ risk_calculation.hazard_output # Nothing =>
               /\ hazard_outputs_call.raised = None
               /\ hazard_outputs_call.returned =
                      <<risk_calculation.hazard_output[1]>>
        /\ (/\ risk_calculation.hazard_output = Nothing
            /\ risk_calculation.hazard_calculation # Nothing) =>
               /\ hazard_outputs_call.raised = None
               /\ Range(hazard_outputs_call.returned) = {o.id : o \in rows}
               /\ Len(hazard_outputs_call.returned) = Cardinality(rows)
               /\ IdsIncrease(hazard_outputs_call.returned)
        /\ (/\ risk_calculation.hazard_output = Nothing
            /\ risk_calculation.hazard_calculation = Nothing) =>
               hazard_outputs_call.raised = "RuntimeError"

\* C15 as stated: a direct hazard output is returned alone, whatever the
\* hazard calculation; else the hazard calculation gives its outputs of the
\* type that matches the calculation mode, by id; else RuntimeError.
C15_Original == HazardOutputsResolve(OutputsOfModeType)

\* C15, amended: as above, but of the outputs of the matching type the
\* classical and event based modes return only those of a logic tree
\* realization; the mean and quantile curves are left out.
C15_HazardOutputsPriority ==
    HazardOutputsResolve(OutputsOfModeTypeAndRealization)

\* C15 witness: without a direct hazard output, two outputs of the hazard
\* calculation were returned by id.
C15_Witness ==
    /\ hazard_outputs_call.call = "hazard_outputs"
    /\ risk_calculation.hazard_output = Nothing
    /\ risk_calculation.hazard_calculation # Nothing
    /\ Len(hazard_outputs_call.returned) = 2

\* A direct hazard output of another job than the hazard calculation was
\* returned alone.
DirectHazardOutputWins ==
    /\ hazard_outputs_call.call = "hazard_outputs"
    /\ risk_calculation.hazard_calculation # Nothing
    /\ \E o \in output_set :
          /\ Some(o.id) = risk_calculation.hazard_output
          /\ Some(o.oq_job) # risk_calculation.hazard_calculation
          /\ hazard_outputs_call.returned = <<o.id>>

\* A mean curve of the hazard calculation was not returned.
MeanCurveLeftOut ==
    /\ hazard_outputs_call.call = "hazard_outputs"
    /\ hazard_outputs_call.raised = None
    /\ risk_calculation.hazard_output = Nothing
    /\ \E o \in OutputsOfModeType :
          \A i \in DOMAIN hazard_outputs_call.returned :
              hazard_outputs_call.returned[i] # o.id

(***************************************************************************)
(* RUPTURE CORNERS: ProbabilisticRupture._validate_planar_surface and the  *)
(* four corner properties.                                                 *)
(*                                                                         *)
(* rupture_row.geom is the attribute _geom: Nothing until the geometry is  *)
(* extracted from the surface, Some(<<lons, lats, depths>>) afterwards or  *)
(* when it was assigned.  Coordinates are integers; len() of a mesh is the *)
(* length of the sequence.                                                 *)
(***************************************************************************)
\* The numbers of points of an assigned lons, lats or depths.
PointCounts == {3, 4, 5}

\* n coordinates that start at base.
Coordinates(base, n) == [i \in 1..n |-> base + i]

\* The triples (lons, lats, depths) that _geom may hold.
Geometries ==
    {<<Coordinates(10, nlons), Coordinates(20, nlats), Coordinates(30, ndepths)>> :
        nlons \in PointCounts, nlats \in PointCounts, ndepths \in PointCounts}

\* get_geom of a planar surface: its top left, top right, bottom left and
\* bottom right corners, in that order.
get_geom_planar == <<Coordinates(10, 4), Coordinates(20, 4), Coordinates(30, 4)>>

\* ProbabilisticRupture.geom, for a rupture of a point or area source.
geom(row) == IF row.geom # Nothing THEN row.geom[1] ELSE get_geom_planar

\* A slip: only the longitudes are counted.
validate_planar_surface_lons_only(g) ==
    IF 4 # Len(g[1]) THEN "ValueError" ELSE None

\* ProbabilisticRupture._validate_planar_surface
validate_planar_surface(g) ==
    IF ~ (4 = Len(g[1]) /\ Len(g[1]) = Len(g[2]) /\ Len(g[2]) = Len(g[3]))
    THEN "ValueError"
    ELSE None

\* The corner properties; i is the index that the property reads.
corner(row, i) ==
    IF ~ (row.is_from_fault_source \/ row.is_multi_surface)
    THEN LET g == geom(row)
         IN  IF validate_planar_surface(g) # None
             THEN [raised |-> validate_planar_surface(g),
                   returned |-> Nothing, geom |-> Some(g)]
             ELSE [raised |-> None,
                   returned |-> Some(<<g[1][i + 1], g[2][i + 1], g[3][i + 1]>>),
                   geom |-> Some(g)]
    ELSE [raised |-> None, returned |-> Nothing, geom |-> row.geom]

\* The properties and the index each of them reads.
CornerIndex ==
    [top_left_corner |-> 0, top_right_corner |-> 1,
     bottom_left_corner |-> 2, bottom_right_corner |-> 3]

StartRupture ==
    /\ rupture_row \in
           [is_from_fault_source : BOOLEAN,
            is_multi_surface : BOOLEAN,
            geom : {Nothing} \cup {Some(g) : g \in Geometries}]
    /\ corner_call = NoCall

IdleRupture ==
    /\ rupture_row = None
    /\ corner_call = NoCall

\* rupture.top_left_corner, .top_right_corner, .bottom_left_corner or
\* .bottom_right_corner is read.
ReadCorner(property) ==
    /\ LET r == corner(rupture_row, CornerIndex[property])
       IN  /\ corner_call' = [call |-> property, raised |-> r.raised,
                              returned |-> r.returned,
                              geom_before |-> rupture_row.geom]
           /\ rupture_row' = [rupture_row EXCEPT !.geom = r.geom]
    /\ UNCHANGED frameRupture

NextRupture ==
    \E property \in DOMAIN CornerIndex : ReadCorner(property)

(***************************************************************************)
(* Claims on the rupture corners.                                          *)
(***************************************************************************)
\* The rupture has a planar surface: it comes from a point or area source.
IsPlanar ==
    ~ (rupture_row.is_from_fault_source \/ rupture_row.is_multi_surface)

\* lons, lats and depths of the rupture have four points each.
HasFourPoints ==
    LET g == geom(rupture_row)
    IN  Len(g[1]) = 4 /\ Len(g[2]) = 4 /\ Len(g[3]) = 4

\* What the last read of a corner did.
CornerOutcome ==
    corner_call.call # None =>
        /\ (IsPlanar /\ ~ HasFourPoints) =>
               /\ corner_call.raised = "ValueError"
               /\ corner_call.returned = Nothing
        /\ (IsPlanar /\ HasFourPoints) =>
               /\ corner_call.raised = None
               /\ corner_call.returned # Nothing
        /\ ~ IsPlanar =>
               /\ corner_call.raised = None
               /\ corner_call.returned = Nothing
               /\ rupture_row.geom = corner_call.geom_before

\* C16: on a rupture of neither a fault source nor a multi surface, a read
\* of any of the four corner properties raises ValueError unless lons, lats
\* and depths have four points each, and a geometry that is there is never
\* changed; on the other ruptures the read returns None and validates
\* nothing.
C16_PlanarSurfaceValidated ==
    /\ [] CornerOutcome
    /\ [][rupture_row.geom # Nothing => rupture_row'.geom = rupture_row.geom]_vars

\* C16 witness: a planar rupture with four longitudes, but not four
\* depths, and the read of a corner raised.
C16_Witness ==
    /\ corner_call.call = "bottom_right_corner"
    /\ IsPlanar
    /\ Len(geom(rupture_row)[1]) = 4
    /\ Len(geom(rupture_row)[3]) # 4
    /\ corner_call.raised = "ValueError"

\* A rupture of a fault source with three points returned None.
FaultSourceNotValidated ==
    /\ corner_call.call # None
    /\ rupture_row.is_from_fault_source
    /\ rupture_row.geom # Nothing
    /\ ~ HasFourPoints
    /\ corner_call.raised = None

(***************************************************************************)
(* ASSET VALUE: ExposureData.per_asset_value.                              *)
(*                                                                         *)
(* cost, area and number_of_units are numbers; the integers used here are  *)
(* floats whose products are exact.                                        *)
(***************************************************************************)
CostTypes == {"aggregated", "per_asset", "per_area", None}

AreaTypes == {"aggregated", "per_asset", None}

Categories == {"population", "buildings", None}

\* The arguments of per_asset_value.
AssetArgs ==
    [cost : {10, 7}, cost_type : CostTypes, area : {2, 5},
     area_type : AreaTypes, number_of_units : {3, 1}, category : Categories]

\* A slip: the area that is given per asset is not multiplied by the
\* number of units.
per_area_per_asset_aggregated(cost, area, number_of_units) == cost * area

\* return cost * area * number_of_units
per_area_per_asset(cost, area, number_of_units) ==
    (cost * area) * number_of_units

\* ExposureData.per_asset_value
per_asset_value(cost, cost_type, area, area_type, number_of_units, category) ==
    IF category # None /\ category = "population"
    THEN [raised |-> None, returned |-> Some(number_of_units)]
    ELSE IF cost_type = "aggregated"
    THEN [raised |-> None, returned |-> Some(cost)]
    ELSE IF cost_type = "per_asset"
    THEN [raised |-> None, returned |-> Some(cost * number_of_units)]
    ELSE IF cost_type = "per_area" /\ area_type = "aggregated"
    THEN [raised |-> None, returned |-> Some(cost * area)]
    ELSE IF cost_type = "per_area" /\ area_type = "per_asset"
    THEN [raised |-> None,
          returned |-> Some(per_area_per_asset(cost, area, number_of_units))]
    ELSE [raised |-> "ValueError", returned |-> Nothing]

StartValue ==
    /\ asset_args \in AssetArgs
    /\ per_asset_value_call = NoCall

IdleValue ==
    /\ asset_args = None
    /\ per_asset_value_call = NoCall

\* ExposureData.per_asset_value(cost, cost_type, area, area_type,
\* number_of_units, category)
PerAssetValue ==
    /\ LET a == asset_args
           r == per_asset_value(a.cost, a.cost_type, a.area, a.area_type,
                                a.number_of_units, a.category)
       IN  per_asset_value_call' = [call |-> "per_asset_value",
                                    raised |-> r.raised,
                                    returned |-> r.returned]
    /\ UNCHANGED <<asset_args, frameValue>>

NextValue == PerAssetValue

(***************************************************************************)
(* Claims on the asset value.                                              *)
(***************************************************************************)
\* The call returned the value v.
ValueIs(v) ==
    /\ per_asset_value_call.raised = None
    /\ per_asset_value_call.returned = Some(v)

\* The arguments are the example of the rule: cost 10, area 2, 3 units.
IsExample ==
    /\ asset_args.cost = 10
    /\ asset_args.area = 2
    /\ asset_args.number_of_units = 3

\* C17: per_asset_value of the population category is number_of_units;
\* otherwise an aggregated cost is the cost, a cost per asset is
\* cost * number_of_units, a cost per area is cost * area for an
\* aggregated area and cost * area * number_of_units for an area per
\* asset (10, 30, 20 and 60 for cost 10, area 2 and 3 units), and every
\* other combination of cost type and area type raises ValueError.
C17_PerAssetValueRules ==
    per_asset_value_call.call = "per_asset_value" =>
        LET a == asset_args
        IN  IF a.category = "population"
            THEN ValueIs(a.number_of_units)
            ELSE CASE a.cost_type = "aggregated" ->
                          /\ ValueIs(a.cost)
                          /\ IsExample => ValueIs(10)
                   [] a.cost_type = "per_asset" ->
                          /\ ValueIs(a.cost * a.number_of_units)
                          /\ IsExample => ValueIs(30)
                   [] a.cost_type = "per_area"
                        /\ a.area_type = "aggregated" ->
                          /\ ValueIs(a.cost * a.area)
                          /\ IsExample => ValueIs(20)
                   [] a.cost_type = "per_area"
                        /\ a.area_type = "per_asset" ->
                          /\ ValueIs(a.cost * a.area * a.number_of_units)
                          /\ IsExample => ValueIs(60)
                   [] OTHER ->
                          /\ per_asset_value_call.raised = "ValueError"
                          /\ per_asset_value_call.returned = Nothing

\* C17 witness: the example with a cost per area and an area per asset
\* gave 60.
C17_Witness ==
    /\ per_asset_value_call.call = "per_asset_value"
    /\ IsExample
    /\ asset_args.category # "population"
    /\ asset_args.cost_type = "per_area"
    /\ asset_args.area_type = "per_asset"
    /\ ValueIs(60)

\* A cost per area with no area type raised ValueError.
PerAreaWithoutAreaTypeRaised ==
    /\ per_asset_value_call.call = "per_asset_value"
    /\ asset_args.cost_type = "per_area"
    /\ asset_args.area_type = None
    /\ per_asset_value_call.raised = "ValueError"

\* The population category gave the number of units with no cost type.
PopulationWithoutCostType ==
    /\ per_asset_value_call.call = "per_asset_value"
    /\ asset_args.category = "population"
    /\ asset_args.cost_type = None
    /\ ValueIs(asset_args.number_of_units)

(***************************************************************************)
(* LOSS FRACTIONS: LossFraction.total_fractions and iteritems.             *)
(*                                                                         *)
(* A value of the variable is a text: the codes of a taxonomy, or the pair *)
(* <<m, d>> read from the text 'm,d' of a magnitude and distance bin.      *)
(* Losses are whole numbers and fractions are rationals <<num, den>>; bin  *)
(* widths are in hundred-thousandths.  An OrderedDict is the sequence of   *)
(* its items [bin, loss, fraction].                                        *)
(***************************************************************************)
\* Most rows of riskr.loss_fraction_data.
MaxLossRows == 3

LossFractionIds == {1, 2}

Variables == {"taxonomy", "magnitude_distance"}

\* The values of a variable: the taxonomies RC and W, or two bins.
ValuesOf(variable) ==
    IF variable = "taxonomy" THEN {<<82, 67>>, <<87>>} ELSE {<<1, 2>>, <<2, 1>>}

Locations == {<<0, 0>>, <<1, 0>>}

AbsoluteLosses == {0, 1}

\* rc.mag_bin_width = 0.1 and rc.distance_bin_width = 10.
rc == [mag_bin_width |-> 10000, distance_bin_width |-> 1000000]

\* '%.4f' % x for x >= 0 in hundred-thousandths.
Format4f(x) ==
    LET rounded == (x + 5) \div 10
    IN  Decimal(rounded \div 10000) \o <<46>>
            \o ZeroPad(Decimal(rounded % 10000), 4)

\* LossFraction.display_value(value, rc)
display_value(variable, value) ==
    IF variable = "taxonomy"
    THEN value
    ELSE IF variable = "magnitude_distance"
    THEN Format4f(value[1] * rc.mag_bin_width) \o <<44>>
             \o Format4f((value[1] + 1) * rc.mag_bin_width) \o <<124>>
             \o Format4f(value[2] * rc.distance_bin_width) \o <<44>>
             \o Format4f((value[2] + 1) * rc.distance_bin_width)
    ELSE None

\* sum(absolute_loss) of rows; 0 stands for the NULL of no rows.
RECURSIVE SumLoss(_)
SumLoss(rows) ==
    IF rows = {}
    THEN 0
    ELSE LET r == CHOOSE x \in rows : TRUE
         IN  r.absolute_loss + SumLoss(rows \ {r})

\* The items in the order of descending loss; the sort is stable, items
\* of equal loss keep their order.
RECURSIVE SortedByLossReversed(_)
SortedByLossReversed(items) ==
    IF items = <<>>
    THEN <<>>
    ELSE LET rest == SortedByLossReversed(Tail(items))
             item == Head(items)
             before == {i \in DOMAIN rest : rest[i].loss > item.loss}
         IN  SubSeq(rest, 1, Cardinality(before)) \o <<item>>
                 \o SubSeq(rest, Cardinality(before) + 1, Len(rest))

\* A slip: no sort, the items stay in the order of the cursor.
sorted_by_loss_not(items) == items

\* sorted([...], key=operator.attrgetter('loss'), reverse=True)
sorted_by_loss(items) == SortedByLossReversed(items)

\* collections.OrderedDict(items): a bin that comes again keeps its place
\* and takes the later loss and fraction.
OrderedDict(items) ==
    LET firsts == {i \in DOMAIN items :
                      \A j \in 1..(i - 1) : items[j].bin # items[i].bin}
        last(i) == CHOOSE j \in DOMAIN items :
                       /\ items[j].bin = items[i].bin
                       /\ \A k \in (j + 1)..Len(items) :
                              items[k].bin # items[i].bin
        RECURSIVE Build(_)
        Build(i) ==
            IF i > Len(items)
            THEN <<>>
            ELSE (IF i \in firsts THEN <<items[last(i)]>> ELSE <<>>)
                     \o Build(i + 1)
    IN  Build(1)

\* A slip: the groups of every loss fraction, not of this one only.
total_fractions_query_all(id) ==
    LET rows == loss_fraction_data
        groups == {[value |-> v,
                    loss |-> SumLoss({r \in rows : r.value = v})] :
                   v \in {r.value : r \in rows}}
    IN  Perms(groups)

\* SELECT value, sum(absolute_loss) ... WHERE loss_fraction_id = %s
\* GROUP BY value: the rows of the cursor, in any order.
total_fractions_query(id) ==
    LET rows == {r \in loss_fraction_data : r.loss_fraction = id}
        groups == {[value |-> v,
                    loss |-> SumLoss({r \in rows : r.value = v})] :
                   v \in {r.value : r \in rows}}
    IN  Perms(groups)

\* LossFraction.total_fractions, for one order of the cursor.
total_fractions(self, cursor) ==
    LET total == SumLoss({r \in loss_fraction_data :
                             r.loss_fraction = self.id})
    IN  IF total = 0
        THEN <<>>
        ELSE OrderedDict(sorted_by_loss(
                 [i \in DOMAIN cursor |->
                     [bin |-> display_value(self.variable, cursor[i].value),
                      loss |-> cursor[i].loss,
                      fraction |-> Rat(cursor[i].loss, total)]]))

\* The query of iteritems: a row for a location and a value, with the loss
\* of the value there, the loss of the location and the number of values
\* of the location.  The window is evaluated over the rows sorted by
\* partition, so the rows of a location come one after the other; the
\* order is free otherwise.
iteritems_query(id) ==
    LET rows == {r \in loss_fraction_data : r.loss_fraction = id}
        at(loc) == {r \in rows : r.location = loc}
        g == {[lon |-> loc[1], lat |-> loc[2], value |-> v,
               fraction_loss |->
                   SumLoss({r \in at(loc) : r.value = v}),
               total_loss |-> SumLoss(at(loc)),
               count |-> Cardinality({r.value : r \in at(loc)})] :
              loc \in {r.location : r \in rows},
              v \in {r.value : r \in rows}}
        present == {x \in g : \E r \in rows :
                       r.location = <<x.lon, x.lat>> /\ r.value = x.value}
    IN  {order \in Perms(present) :
            \A i, k \in DOMAIN order :
                (i < k /\ order[i].lon = order[k].lon
                       /\ order[i].lat = order[k].lat) =>
                    \A j \in i..k : /\ order[j].lon = order[i].lon
                                    /\ order[j].lat = order[i].lat}

\* A slip: the fraction of a location without loss is left undefined.
fraction_of_total_unguarded(absolute_loss, total_loss) ==
    Rat(absolute_loss, total_loss)

\* display_value_and_fractions: the fraction of the loss of the location.
fraction_of_total(absolute_loss, total_loss) ==
    IF total_loss > 0 THEN Rat(absolute_loss, total_loss) ELSE Rat(0, 1)

\* The node of iteritems for the rows fetched for one location: the
\* dictionary filled row by row, then sorted by key.
node_of(variable, fetched) ==
    LET items == [i \in DOMAIN fetched |->
                     [bin |-> display_value(variable, fetched[i].value),
                      loss |-> fetched[i].fraction_loss,
                      fraction |-> fraction_of_total(
                          fetched[i].fraction_loss, fetched[i].total_loss)]]
        dict == Range(OrderedDict(items))
        sorted == CHOOSE s \in Perms(dict) :
                      \A i, j \in DOMAIN s :
                          i < j => LexLeq(s[i].bin, s[j].bin)
    IN  [location |-> <<fetched[1].lon, fetched[1].lat>>, data |-> sorted]

\* LossFraction.iteritems, for one order of the cursor: fetchone(), then
\* fetchmany(count - 1), until the cursor is empty.
RECURSIVE iteritems(_, _)
iteritems(self, cursor) ==
    IF cursor = <<>>
    THEN <<>>
    ELSE LET count == Head(cursor).count
             n == IF count <= Len(cursor) THEN count ELSE Len(cursor)
         IN  <<node_of(self.variable, SubSeq(cursor, 1, n))>>
                 \o iteritems(self, SubSeq(cursor, n + 1, Len(cursor)))

StartFractions ==
    /\ loss_fraction \in [id : {1}, variable : Variables]
    /\ loss_fraction_data = {}
    /\ fractions_call = NoCall

IdleFractions ==
    /\ loss_fraction = None
    /\ loss_fraction_data = {}
    /\ fractions_call = NoCall

\* A row of loss fraction data is saved: of this loss fraction, or a row
\* of another one.
LossFractionDataCreate(id, location, value, absolute_loss) ==
    /\ Cardinality(loss_fraction_data) < MaxLossRows
    /\ value \in ValuesOf(loss_fraction.variable)
    /\ id # loss_fraction.id =>
           /\ location = <<0, 0>>
           /\ absolute_loss = 1
    /\ loss_fraction_data' = loss_fraction_data \cup
           {[id |-> Cardinality(loss_fraction_data) + 1,
             loss_fraction |-> id, location |-> location,
             value |-> value, absolute_loss |-> absolute_loss]}
    /\ fractions_call' = NoCall
    /\ UNCHANGED <<loss_fraction, frameFractions>>

\* loss_fraction.total_fractions()
TotalFractions ==
    /\ \E cursor \in total_fractions_query(loss_fraction.id) :
          fractions_call' = [call |-> "total_fractions",
                             returned |-> total_fractions(loss_fraction, cursor)]
    /\ UNCHANGED <<loss_fraction, loss_fraction_data, frameFractions>>

\* list(loss_fraction.iteritems())
Iteritems ==
    /\ \E cursor \in iteritems_query(loss_fraction.id) :
          fractions_call' = [call |-> "iteritems",
                             returned |-> iteritems(loss_fraction, cursor)]
    /\ UNCHANGED <<loss_fraction, loss_fraction_data, frameFractions>>

NextFractions ==
    \/ \E id \in LossFractionIds, location \in Locations,
          value \in UNION {ValuesOf(variable) : variable \in Variables},
          absolute_loss \in AbsoluteLosses :
          LossFractionDataCreate(id, location, value, absolute_loss)
    \/ TotalFractions
    \/ Iteritems

(***************************************************************************)
(* Claims on the loss fractions.                                           *)
(***************************************************************************)
\* The rows of the loss fraction.
OwnRows == {r \in loss_fraction_data : r.loss_fraction = loss_fraction.id}

\* The sum of the field loss of the items of a sequence.
RECURSIVE LossOfItems(_)
LossOfItems(items) ==
    IF items = <<>> THEN 0 ELSE Head(items).loss + LossOfItems(Tail(items))

\* The sum of the fractions of the items of a sequence, as a rational.
RECURSIVE FractionOfItems(_)
FractionOfItems(items) ==
    IF items = <<>>
    THEN Rat(0, 1)
    ELSE LET f == Head(items).fraction
             s == FractionOfItems(Tail(items))
         IN  Rat(f[1] * s[2] + s[1] * f[2], f[2] * s[2])

\* C18: the losses of the bins that total_fractions returns sum to the
\* grand total of the rows, their fractions sum to 1 when there are bins,
\* and there are no bins if and only if the grand total is 0.
C18_TotalFractionsSums ==
    fractions_call.call = "total_fractions" =>
        /\ LossOfItems(fractions_call.returned) = SumLoss(OwnRows)
        /\ fractions_call.returned # <<>> =>
               RatEq(FractionOfItems(fractions_call.returned), Rat(1, 1))
        /\ fractions_call.returned = <<>> <=> SumLoss(OwnRows) = 0

\* C18 witness: two bins with losses, next to rows of another loss
\* fraction.
C18_Witness ==
    /\ fractions_call.call = "total_fractions"
    /\ Len(fractions_call.returned) = 2
    /\ \A i \in DOMAIN fractions_call.returned :
          fractions_call.returned[i].loss > 0
    /\ OwnRows # loss_fraction_data

\* No bins for rows that have no loss.
NoBinsForZeroTotal ==
    /\ fractions_call.call = "total_fractions"
    /\ fractions_call.returned = <<>>
    /\ OwnRows # {}

RISK_RTOL == Rat(1, 20)

\* RISK_ATOL = 0.01, in thousandths
RISK_ATOL == 10

LossRatioArrays == {<<0, 0>>, <<0, 250>>, <<0, 500>>}

PoeArrays == {<<0, 0>>, <<10, 0>>, <<11, 0>>, <<1000, 500>>}

AssetValues == {0, 100}

\* LossCurveData.losses
losses_of(loss_ratios, asset_value) ==
    [i \in DOMAIN loss_ratios |-> loss_ratios[i] * asset_value]

\* The curves that are compared.
LossCurves ==
    {[asset_value |-> Some(v), loss_ratios |-> ratios,
      losses |-> losses_of(ratios, v), poes |-> poes] :
        v \in AssetValues, ratios \in LossRatioArrays, poes \in PoeArrays}
    \cup
    {[asset_value |-> Nothing, loss_ratios |-> <<>>,
      losses |-> losses_of(ratios, 100), poes |-> poes] :
        ratios \in LossRatioArrays, poes \in PoeArrays}

\* A slip: no absolute tolerance.
is_close_relative(actual, desired) ==
    Abs(actual[1] - desired * actual[2]) * RISK_RTOL[2]
        <= RISK_RTOL[1] * Abs(desired) * actual[2]

\* abs(actual - desired) <= atol + rtol * abs(desired), actual a rational
is_close(actual, desired) ==
    Abs(actual[1] - desired * actual[2]) * RISK_RTOL[2]
        <= (RISK_ATOL * RISK_RTOL[2] + RISK_RTOL[1] * Abs(desired)) * actual[2]

\* risk_almost_equal: numpy.testing.assert_allclose(o1, o2, rtol, atol)
risk_almost_equal(o1, o2) ==
    IF Len(o1) = Len(o2) /\ \A i \in DOMAIN o1 : is_close(o1[i], o2[i])
    THEN None
    ELSE "AssertionError"

\* interp1d(x, y, bounds_error=False, fill_value=0)(at), x increasing
interp1d(x, y, at) ==
    IF at < x[1] \/ at > x[Len(x)]
    THEN Rat(0, 1)
    ELSE LET i == CHOOSE k \in 1..(Len(x) - 1) : x[k] <= at /\ at <= x[k + 1]
             dx == x[i + 1] - x[i]
         IN  Rat(y[i] * dx + (y[i + 1] - y[i]) * (at - x[i]), dx)

\* A slip: the loss ratios are compared when either asset value is 0.
compares_loss_ratios_either(curve, expected) ==
    curve.asset_value = Some(0) \/ expected.asset_value = Some(0)

\* getattr(curve, 'asset_value', None) == 0.0 and
\* getattr(expected_curve, 'asset_value', None) == 0.0
compares_loss_ratios(curve, expected) ==
    curve.asset_value = Some(0) /\ expected.asset_value = Some(0)

\* The whole numbers of an array as rationals.
AsRationals(array) == [i \in DOMAIN array |-> Rat(array[i], 1)]

\* loss_curve_almost_equal(curve, expected_curve): the branch taken, the
\* arrays compared and what the comparison raised.
loss_curve_almost_equal(curve, expected) ==
    IF compares_loss_ratios(curve, expected)
    THEN [branch |-> "loss_ratios",
          actual |-> AsRationals(curve.loss_ratios),
          desired |-> expected.loss_ratios,
          raised |-> risk_almost_equal(AsRationals(curve.loss_ratios),
                                       expected.loss_ratios)]
    ELSE LET poes ==
                 IF \E i \in DOMAIN curve.losses : curve.losses[i] > 0
                 THEN [i \in DOMAIN expected.losses |->
                          interp1d(curve.losses, curve.poes,
                                   expected.losses[i])]
                 ELSE [i \in DOMAIN expected.poes |-> Rat(0, 1)]
         IN  [branch |-> IF \E i \in DOMAIN curve.losses : curve.losses[i] > 0
                         THEN "interpolate" ELSE "zeros",
              actual |-> poes,
              desired |-> expected.poes,
              raised |-> risk_almost_equal(poes, expected.poes)]

StartCompare ==
    /\ computed_curve \in LossCurves
    /\ expected_curve \in LossCurves
    /\ almost_equal_call = NoCall

IdleCompare ==
    /\ computed_curve = None
    /\ expected_curve = None
    /\ almost_equal_call = NoCall

\* curve.assertAlmostEqual(expected_curve)
LossCurveAlmostEqual ==
    /\ LET r == loss_curve_almost_equal(computed_curve, expected_curve)
       IN  almost_equal_call' = [call |-> "loss_curve_almost_equal",
                                 branch |-> r.branch, actual |-> r.actual,
                                 desired |-> r.desired, raised |-> r.raised]
    /\ UNCHANGED <<computed_curve, expected_curve, frameCompare>>

NextCompare == LossCurveAlmostEqual

(***************************************************************************)
(* Claims on the approximate equality of loss curves.                      *)
(***************************************************************************)
\* Every number of an array is 0.
AllZero(array) == \A i \in DOMAIN array : array[i] = 0

\* The arrays a and d are equal within the tolerances 0.05 and 0.01.
WithinTolerance(a, d) ==
    /\ Len(a) = Len(d)
    /\ \A i \in DOMAIN a : 20 * Abs(a[i] - d[i]) <= 200 + Abs(d[i])

\* C21: with an asset value of exactly 0 on both curves the loss ratios
\* of the two curves are compared as they are, without interpolation and
\* without the PoEs; the loss ratios are compared in no other case.
C21_ZeroAssetValueComparesLossRatios ==
    almost_equal_call.call = "loss_curve_almost_equal" =>
        /\ almost_equal_call.branch = "loss_ratios" <=>
               /\ computed_curve.asset_value = Some(0)
               /\ expected_curve.asset_value = Some(0)
        /\ almost_equal_call.branch = "loss_ratios" =>
               /\ almost_equal_call.actual =
                      AsRationals(computed_curve.loss_ratios)
               /\ almost_equal_call.desired = expected_curve.loss_ratios
               /\ almost_equal_call.raised = None <=>
                      WithinTolerance(computed_curve.loss_ratios,
                                      expected_curve.loss_ratios)

\* C21 witness: both asset values are 0, the PoEs differ and the loss
\* ratios are the same: the curves compare equal.
C21_Witness ==
    /\ almost_equal_call.call = "loss_curve_almost_equal"
    /\ almost_equal_call.branch = "loss_ratios"
    /\ almost_equal_call.raised = None
    /\ computed_curve.poes = <<0, 0>>
    /\ expected_curve.poes = <<1000, 500>>

\* One asset value is 0 and the other is not: the PoEs are compared.
OneZeroAssetValueComparesPoes ==
    /\ almost_equal_call.call = "loss_curve_almost_equal"
    /\ computed_curve.asset_value = Some(0)
    /\ expected_curve.asset_value = Some(100)
    /\ almost_equal_call.branch = "zeros"

\* The computed curve has no loss above 0 and the loss ratios are not
\* what is compared.
ComparesToZeros ==
    /\ almost_equal_call.call = "loss_curve_almost_equal"
    /\ AllZero(computed_curve.losses)
    /\ ~ (/\ computed_curve.asset_value = Some(0)
          /\ expected_curve.asset_value = Some(0))

\* C22 as stated: when all the losses of the computed curve are 0 the
\* comparison succeeds only if the expected PoEs are all 0.
C22_Original ==
    (ComparesToZeros /\ almost_equal_call.raised = None) =>
        AllZero(expected_curve.poes)

\* C22, amended: when all the losses of the computed curve are 0 (and the
\* asset values are not both 0) a vector of zeros is compared with the
\* expected PoEs, and the comparison succeeds if and only if every
\* expected PoE p is within the tolerance of 0: p <= 0.01 + 0.05 * p.
C22_ZeroLossesCompareToZeros ==
    ComparesToZeros =>
        /\ almost_equal_call.branch = "zeros"
        /\ AllZero([i \in DOMAIN almost_equal_call.actual |->
                       almost_equal_call.actual[i][1]])
        /\ almost_equal_call.desired = expected_curve.poes
        /\ almost_equal_call.raised = None <=>
               \A i \in DOMAIN expected_curve.poes :
                   20 * expected_curve.poes[i] <=
                       200 + expected_curve.poes[i]

\* C22 witness: all losses 0, an expected PoE of 0.01, and the curves
\* compare equal.
C22_Witness ==
    /\ ComparesToZeros
    /\ expected_curve.poes = <<10, 0>>
    /\ almost_equal_call.raised = None

\* An expected PoE of 0.011 against losses of 0 does not compare equal.
ZeroLossesRejected ==
    /\ ComparesToZeros
    /\ expected_curve.poes = <<11, 0>>
    /\ almost_equal_call.raised = "AssertionError"

(***************************************************************************)
(* RISK OUTPUT WRITERS: LossCurveDBWriter.serialize and                    *)
(* LossMapDBWriter.serialize, as db_tests/output_risk_unittest.py uses     *)
(* them.                                                                   *)
(*                                                                         *)
(* writer_data is the argument of serialize with the kind of the writer.   *)
(* detail_rows is the detail table in the order of insertion: a loss       *)
(* asset data row with its loss curve data row (the curve split into       *)
(* abscissae and poes), or a loss map data row.  An asset id 'a5625' is    *)
(* the number 5625; numbers are whole.                                     *)
(***************************************************************************)
\* Most records in an argument of serialize.
MaxRecords == 2

WriterSites == {<<-118, 33>>, <<-117, 38>>}

\* Curve([(x, y), ...]): pairs of an abscissa and a PoE
WriterCurves == {<<<<3, 1000>>, <<8, 1000>>>>, <<<<7, 1000>>, <<19, 500>>>>}

AssetIds == {5625, 5629}

\* The records (site, (curve, asset)) of a loss curve.
LossCurveRecords ==
    [site : WriterSites, curve : WriterCurves, assetID : AssetIds]

\* LOSS_MAP_METADATA, with and without a PoE and of either kind.
LossMapMetadata ==
    [deterministic : BOOLEAN, endBranchLabel : {"test_ebl"},
     lossCategory : {"economic_loss"}, unit : {"EUR"},
     poe : {Nothing, Some(100)}]

SITE_A == <<-117, 38>>

SITE_B == <<-118, 39>>

\* (SITE_A, [(SITE_A_LOSS_ONE, SITE_A_ASSET_ONE),
\*           (SITE_A_LOSS_TWO, SITE_A_ASSET_TWO)])
SITE_A_ENTRY ==
    [site |-> SITE_A,
     losses |-> <<[mean_loss |-> 0, stddev_loss |-> 100, assetID |-> 1711],
                  [mean_loss |-> 5, stddev_loss |-> 2000, assetID |-> 1712]>>]

\* (SITE_B, [(SITE_B_LOSS_ONE, SITE_B_ASSET_ONE)])
SITE_B_ENTRY ==
    [site |-> SITE_B,
     losses |-> <<[mean_loss |-> 120000, stddev_loss |-> 2000,
                   assetID |-> 1713]>>]

\* The entries (site, [(loss, asset), ...]) of a loss map.
LossMapEntries ==
    {SITE_A_ENTRY, SITE_B_ENTRY,
     [site |-> SITE_A, losses |-> SITE_B_ENTRY.losses]}

\* The sequences over S of a length up to n.
SeqsUpTo(S, n) == UNION {[1..k -> S] : k \in 0..n}

\* The output row a writer creates.
output_row(output_type) ==
    [id |-> 1, output_type |-> output_type, db_backed |-> TRUE, path |-> None]

\* A slip: an asset that is already stored at the site is not stored
\* again.
loss_curve_rows_once(data) ==
    LET first(i) == \A j \in 1..(i - 1) :
                        ~ (/\ data[j].site = data[i].site
                           /\ data[j].assetID = data[i].assetID)
        RECURSIVE Build(_)
        Build(i) ==
            IF i > Len(data)
            THEN <<>>
            ELSE (IF first(i)
                  THEN <<[asset_id |-> data[i].assetID, pos |-> data[i].site,
                          abscissae |-> [k \in DOMAIN data[i].curve |->
                                            data[i].curve[k][1]],
                          poes |-> [k \in DOMAIN data[i].curve |->
                                       data[i].curve[k][2]]]>>
                  ELSE <<>>) \o Build(i + 1)
    IN  Build(1)

\* LossCurveDBWriter.serialize: a loss asset data row and a loss curve
\* data row for every record.
loss_curve_rows(data) ==
    [i \in DOMAIN data |->
        [asset_id |-> data[i].assetID, pos |-> data[i].site,
         abscissae |-> [k \in DOMAIN data[i].curve |-> data[i].curve[k][1]],
         poes |-> [k \in DOMAIN data[i].curve |-> data[i].curve[k][2]]]]

\* A slip: the standard deviation is stored for the first asset of a site
\* only.
loss_map_row_first(site, loss, k) ==
    [location |-> site, asset_ref |-> loss.assetID, value |-> loss.mean_loss,
     std_dev |-> IF k = 1 THEN loss.stddev_loss ELSE 0]

\* The loss map data row of the k-th (loss, asset) of a site.
loss_map_row(site, loss, k) ==
    [location |-> site, asset_ref |-> loss.assetID, value |-> loss.mean_loss,
     std_dev |-> loss.stddev_loss]

\* LossMapDBWriter.serialize, the entries after the metadata: a loss map
\* data row for every (site, asset), in the order of the input.
RECURSIVE loss_map_rows(_)
loss_map_rows(entries) ==
    IF entries = <<>>
    THEN <<>>
    ELSE [k \in DOMAIN Head(entries).losses |->
             loss_map_row(Head(entries).site, Head(entries).losses[k], k)]
         \o loss_map_rows(Tail(entries))

\* The loss map row of the metadata.
loss_map_metadata_row(metadata) ==
    [output_id |-> 1, deterministic |-> metadata.deterministic,
     end_branch_label |-> metadata.endBranchLabel,
     category |-> metadata.lossCategory, unit |-> metadata.unit,
     poe |-> metadata.poe]

\* test_insert: (Site(pos), (Curve(zip(abscissae, poes)), assetID)) of
\* every stored curve.
read_loss_curves(rows) ==
    [i \in DOMAIN rows |->
        [site |-> rows[i].pos,
         curve |-> [k \in DOMAIN rows[i].abscissae |->
                       <<rows[i].abscissae[k], rows[i].poes[k]>>],
         assetID |-> rows[i].asset_id]]

\* normalize: sorted(result, key=lambda v: v[1][1]['assetID']); the sort
\* is stable.
RECURSIVE normalize(_)
normalize(values) ==
    IF values = <<>>
    THEN <<>>
    ELSE LET rest == normalize(Tail(values))
             value == Head(values)
             before == {i \in DOMAIN rest : rest[i].assetID < value.assetID}
         IN  SubSeq(rest, 1, Cardinality(before)) \o <<value>>
                 \o SubSeq(rest, Cardinality(before) + 1, Len(rest))

StartWriter ==
    /\ writer_data \in
           {[writer |-> "LossCurveDBWriter", metadata |-> Nothing,
             data |-> d] : d \in SeqsUpTo(LossCurveRecords, MaxRecords)}
           \cup
           {[writer |-> "LossMapDBWriter", metadata |-> Some(m),
             data |-> d] :
               m \in LossMapMetadata, d \in SeqsUpTo(LossMapEntries, MaxRecords)}
    /\ output_rows = {}
    /\ loss_map_table = <<>>
    /\ detail_rows = <<>>
    /\ inserted_data = Nothing

IdleWriter ==
    /\ writer_data = None
    /\ output_rows = {}
    /\ loss_map_table = <<>>
    /\ detail_rows = <<>>
    /\ inserted_data = Nothing

\* LossCurveDBWriter(...).serialize(data)
SerializeLossCurve ==
    /\ writer_data.writer = "LossCurveDBWriter"
    /\ output_rows = {}
    /\ output_rows' = {output_row("loss_curve")}
    /\ detail_rows' = loss_curve_rows(writer_data.data)
    /\ UNCHANGED <<writer_data, loss_map_table, inserted_data, frameWriter>>

\* LossMapDBWriter(...).serialize([metadata] + entries)
SerializeLossMap ==
    /\ writer_data.writer = "LossMapDBWriter"
    /\ output_rows = {}
    /\ output_rows' = {output_row("loss_map")}
    /\ loss_map_table' = <<loss_map_metadata_row(writer_data.metadata[1])>>
    /\ detail_rows' = loss_map_rows(writer_data.data)
    /\ UNCHANGED <<writer_data, inserted_data, frameWriter>>

\* test_insert reads the stored curves back.
ReadLossCurves ==
    /\ writer_data.writer = "LossCurveDBWriter"
    /\ output_rows # {}
    /\ inserted_data = Nothing
    /\ inserted_data' = Some(read_loss_curves(detail_rows))
    /\ UNCHANGED <<writer_data, output_rows, loss_map_table, detail_rows,
                   frameWriter>>

NextWriter ==
    \/ SerializeLossCurve
    \/ SerializeLossMap
    \/ ReadLossCurves

(***************************************************************************)
(* Claims on the risk output writers.                                      *)
(***************************************************************************)
\* How many times x is in the sequence s.
CountIn(s, x) == Cardinality({i \in DOMAIN s : s[i] = x})

\* The sequences s and t hold the same elements the same number of times.
SameMultiset(s, t) ==
    /\ Len(s) = Len(t)
    /\ \A i \in DOMAIN s : CountIn(s, s[i]) = CountIn(t, s[i])

RECURSIVE PairsOf(_)
PairsOf(entries) ==
    IF entries = <<>>
    THEN <<>>
    ELSE [k \in DOMAIN Head(entries).losses |->
             [site |-> Head(entries).site, loss |-> Head(entries).losses[k]]]
         \o PairsOf(Tail(entries))

\* The argument of serialize is the sample of the test: two sites, three
\* assets.
IsSampleLossMap == writer_data.data = <<SITE_A_ENTRY, SITE_B_ENTRY>>

\* C24: serialize of a loss map writer stores one output row of the type
\* loss_map, one loss map row with the deterministic flag, the end branch
\* label, the category and the unit of the metadata (and its PoE, None
\* when there is none), and one loss map data row for every (site, asset)
\* in the order of the input, with its location, asset, mean and standard
\* deviation; the sample of two sites and three assets gives 1, 1 and 3
\* rows.
C24_LossMapRows ==
    (writer_data.writer = "LossMapDBWriter" /\ output_rows # {}) =>
        LET metadata == writer_data.metadata[1]
            pairs == PairsOf(writer_data.data)
        IN  /\ Cardinality(output_rows) = 1
            /\ \A o \in output_rows : o.output_type = "loss_map"
            /\ Len(loss_map_table) = 1
            /\ loss_map_table[1].deterministic = metadata.deterministic
            /\ loss_map_table[1].end_branch_label = metadata.endBranchLabel
            /\ loss_map_table[1].category = metadata.lossCategory
            /\ loss_map_table[1].unit = metadata.unit
            /\ loss_map_table[1].poe = metadata.poe
            /\ Len(detail_rows) = Len(pairs)
            /\ \A i \in DOMAIN pairs :
                  /\ detail_rows[i].location = pairs[i].site
                  /\ detail_rows[i].asset_ref = pairs[i].loss.assetID
                  /\ detail_rows[i].value = pairs[i].loss.mean_loss
                  /\ detail_rows[i].std_dev = pairs[i].loss.stddev_loss
            /\ IsSampleLossMap => Len(detail_rows) = 3

\* C24 witness: the sample of the test, deterministic and without a PoE,
\* is stored in three rows.
C24_Witness ==
    /\ writer_data.writer = "LossMapDBWriter"
    /\ output_rows # {}
    /\ IsSampleLossMap
    /\ loss_map_table[1].deterministic
    /\ loss_map_table[1].poe = Nothing
    /\ Len(detail_rows) = 3
    /\ detail_rows[2].std_dev = 2000

(***************************************************************************)
(* INTENSITY MEASURE TYPES: Imt.save_new and Imt.get, called by worker     *)
(* processes that share the table hzrdi.imt.                               *)
(*                                                                         *)
(* stored_imts[w] is the class attribute of worker w: Nothing for None,    *)
(* Some(the set of imt_str it holds) once it is loaded.  save_new_todo[w]  *)
(* is Nothing, or Some of the argument of a running call of save_new and   *)
(* the imts it still has to look at; a step of a call is one statement on  *)
(* the database.  The                                                      *)
(* model class declares no uniqueness of imt_str; whether the schema does  *)
(* is not in this repository: imt_str_unique is either.                    *)
(***************************************************************************)
Workers == {1, 2}

\* str(x) of the hazardlib imts: 'PGA' and 'SA(0.1)'
ImtStrs == {"PGA", "SA(0.1)"}

\* The lists of imts passed to save_new.
ImtLists == {<<"PGA">>, <<"SA(0.1)">>, <<"PGA", "SA(0.1)">>}

\* imt_str not in cls.stored_imts, negated
is_stored(w, imt_str) == imt_str \in stored_imts[w][1]

StartImt ==
    /\ imt_rows = {}
    /\ stored_imts = [w \in Workers |-> Nothing]
    /\ save_new_todo = [w \in Workers |-> Nothing]
    /\ save_new_done = {}
    /\ imt_str_unique \in BOOLEAN

IdleImt ==
    /\ imt_rows = {}
    /\ stored_imts = None
    /\ save_new_todo = None
    /\ save_new_done = {}
    /\ imt_str_unique = FALSE

\* Imt.save_new(hazardlib_imts) is called in worker w.
SaveNewCall(w, hazardlib_imts) ==
    /\ save_new_todo[w] = Nothing
    /\ save_new_todo' = [save_new_todo EXCEPT
                            ![w] = Some([hazardlib_imts |-> hazardlib_imts,
                                         rest |-> hazardlib_imts])]
    /\ UNCHANGED <<imt_rows, stored_imts, save_new_done, imt_str_unique,
                   frameImt>>

\* if cls.stored_imts is None: the dictionary is read from the table.
SaveNewLoad(w) ==
    /\ save_new_todo[w] # Nothing
    /\ stored_imts[w] = Nothing
    /\ stored_imts' = [stored_imts EXCEPT
                          ![w] = Some({row.imt_str : row \in imt_rows})]
    /\ UNCHANGED <<imt_rows, save_new_todo, save_new_done, imt_str_unique,
                   frameImt>>

\* One turn of the loop of save_new: the imt is skipped, or created and
\* put in the dictionary; a create that a unique imt_str forbids raises
\* and ends the call.
SaveNewStep(w) ==
    /\ save_new_todo[w] # Nothing
    /\ stored_imts[w] # Nothing
    /\ save_new_todo[w][1].rest # <<>>
    /\ LET call == save_new_todo[w][1]
           imt_str == Head(call.rest)
           on == Some([call EXCEPT !.rest = Tail(call.rest)])
       IN  IF is_stored(w, imt_str)
           THEN /\ save_new_todo' = [save_new_todo EXCEPT ![w] = on]
                /\ UNCHANGED <<imt_rows, stored_imts>>
           ELSE IF imt_str_unique
                   /\ \E row \in imt_rows : row.imt_str = imt_str
           THEN /\ save_new_todo' = [save_new_todo EXCEPT ![w] = Nothing]
                /\ UNCHANGED <<imt_rows, stored_imts>>
           ELSE /\ imt_rows' = imt_rows \cup
                        {[id |-> Cardinality(imt_rows) + 1,
                          imt_str |-> imt_str]}
                /\ stored_imts' = [stored_imts EXCEPT
                                      ![w] = Some(stored_imts[w][1]
                                                      \cup {imt_str})]
                /\ save_new_todo' = [save_new_todo EXCEPT ![w] = on]
    /\ UNCHANGED <<save_new_done, imt_str_unique, frameImt>>

\* The loop is over: save_new returns.
SaveNewReturn(w) ==
    /\ save_new_todo[w] # Nothing
    /\ stored_imts[w] # Nothing
    /\ save_new_todo[w][1].rest = <<>>
    /\ save_new_todo' = [save_new_todo EXCEPT ![w] = Nothing]
    /\ save_new_done' = save_new_done
                            \cup Range(save_new_todo[w][1].hazardlib_imts)
    /\ UNCHANGED <<imt_rows, stored_imts, imt_str_unique, frameImt>>

NextImt ==
    \/ \E w \in Workers, hazardlib_imts \in ImtLists :
          SaveNewCall(w, hazardlib_imts)
    \/ \E w \in Workers : SaveNewLoad(w)
    \/ \E w \in Workers : SaveNewStep(w)
    \/ \E w \in Workers : SaveNewReturn(w)

\* The table holds at most one row per imt_str.
OneRowPerImtStr ==
    \A r1 \in imt_rows, r2 \in imt_rows :
        r1.imt_str = r2.imt_str => r1 = r2

\* Every imt_str passed to a completed save_new call is in the table.
DoneAreStored ==
    \A imt_str \in save_new_done : \E row \in imt_rows : row.imt_str = imt_str

\* C26: after any interleaving of save_new calls of the workers, the table
\* holds at most one row per imt_str and every imt_str passed to a
\* completed call is in the table.  Violated: a worker whose dictionary was
\* read before another worker created the imt creates it again.
C26_SaveNewAcrossWorkers == OneRowPerImtStr /\ DoneAreStored

\* Two completed calls have left two rows of one imt_str.
SaveNewDuplicated ==
    /\ ~ OneRowPerImtStr
    /\ \A w \in Workers : save_new_todo[w] = Nothing
    /\ save_new_done # {}

(***************************************************************************)
(* JOB PARAMETERS: OqJob.save_param.                                       *)
(*                                                                         *)
(* A Python value is <<type, text>>.  The value of a row is what the       *)
(* attribute `value` of the LiteralField reads: the attribute is assigned  *)
(* repr(value) and the field evaluates the literal.  saved_param keeps,    *)
(* for a job and a name, the value of the last save_param (Nothing before  *)
(* the first).                                                             *)
(***************************************************************************)
\* The int 3 and the str '3'
PyValues == {<<"int", "3">>, <<"str", "3">>}

\* repr(value)
repr(value) == IF value[1] = "str" THEN "'" \o value[2] \o "'" ELSE value[2]

\* ast.literal_eval(text), of fields.LiteralField.to_python
literal_eval(text) == CHOOSE value \in PyValues : repr(value) = text

\* The keyword arguments of save_param: a dictionary of some names.
NameVals == UNION {[names -> PyValues] : names \in SUBSET ParamNames \ {{}}}

\* The orders in which a dictionary is iterated.
NameOrders == UNION {Perms(names) : names \in SUBSET ParamNames \ {{}}}

\* A slip: the parameter is created whether it exists or not.
save_param_always_creates(rows, job, name, value) ==
    rows \cup {[id |-> Cardinality(rows) + 1, job |-> job, name |-> name,
                value |-> literal_eval(repr(value))]}

\* One turn of the loop of save_param.
save_param_name(rows, job, name, value) ==
    LET jplist == {p \in rows : p.job = job /\ p.name = name}
    IN  IF jplist # {}
        THEN LET first == CHOOSE p \in jplist :
                              \A q \in jplist : p.id <= q.id
             IN  (rows \ {first})
                     \cup {[first EXCEPT !.value = literal_eval(repr(value))]}
        ELSE rows \cup {[id |-> Cardinality(rows) + 1, job |-> job,
                         name |-> name,
                         value |-> literal_eval(repr(value))]}

\* OqJob.save_param(**name_vals), the names taken in the order `names`
RECURSIVE save_param(_, _, _, _)
save_param(rows, job, names, name_vals) ==
    IF names = <<>>
    THEN rows
    ELSE save_param(save_param_name(rows, job, Head(names),
                                    name_vals[Head(names)]),
                    job, Tail(names), name_vals)

StartSaveParam ==
    saved_param = [k \in OqJobs \X ParamNames |-> Nothing]

IdleSaveParam ==
    saved_param = None

\* OqJob.save_params of one parameter the job does not have yet.
SaveParams(job, name, value) ==
    /\ \A p \in job_param : ~ (p.job = job /\ p.name = name)
    /\ job_param' = job_param \cup
           {[id |-> Cardinality(job_param) + 1, job |-> job, name |-> name,
             value |-> literal_eval(repr(value))]}
    /\ get_param_call' = NoCall
    /\ UNCHANGED <<saved_param, frameSaveParam>>

\* job.save_param(**name_vals)
SaveParam(job, name_vals, names) ==
    /\ Len(names) = Cardinality(DOMAIN name_vals)
    /\ Range(names) = DOMAIN name_vals
    /\ job_param' = save_param(job_param, job, names, name_vals)
    /\ saved_param' =
           [k \in OqJobs \X ParamNames |->
               IF k[1] = job /\ k[2] \in DOMAIN name_vals
               THEN Some(name_vals[k[2]])
               ELSE saved_param[k]]
    /\ get_param_call' =
           [call |-> "save_param", job |-> job, names |-> DOMAIN name_vals,
            updated |-> {name \in DOMAIN name_vals :
                            \E p \in job_param :
                                p.job = job /\ p.name = name}]
    /\ UNCHANGED frameSaveParam

NextSaveParam ==
    \/ \E job \in OqJobs, name \in ParamNames, value \in PyValues :
          SaveParams(job, name, value)
    \/ \E job \in OqJobs, name_vals \in NameVals, names \in NameOrders :
          SaveParam(job, name_vals, names)
    \/ \E job \in OqJobs, name \in ParamNames : GetParam(job, name, Nothing)

(***************************************************************************)
(* Claims on save_param.                                                   *)
(***************************************************************************)
\* A job has at most one row per name.
OneRowPerName ==
    \A p \in job_param, q \in job_param :
        (p.job = q.job /\ p.name = q.name) => p = q

\* get_param(name) returns the value of the last save_param of the name.
GetParamIsLastSaved ==
    \A job \in OqJobs, name \in ParamNames :
        saved_param[<<job, name>>] # Nothing =>
            get_param(job, name, Nothing) =
                [raised |-> None, returned |-> saved_param[<<job, name>>]]

\* A call of save_param leaves the rows of other jobs and names alone.
OtherRowsUnchanged ==
    get_param_call'.call = "save_param" =>
        LET other(p) == \/ p.job # get_param_call'.job
                        \/ p.name \notin get_param_call'.names
        IN  {p \in job_param : other(p)} = {p \in job_param' : other(p)}

\* C27: from a job with at most one row per name, after any sequence of
\* save_param calls the job has at most one row per name, get_param(name)
\* returns the value of the most recent save_param of the name, and a call
\* leaves the rows of the names not passed to it unchanged.
C27_SaveParamUpdatesOrCreates ==
    /\ [] (OneRowPerName /\ GetParamIsLastSaved)
    /\ [][OtherRowsUnchanged]_vars

\* C27 witness: one call of save_param updated a parameter and created
\* another, while a row of another job is in the table.
C27_Witness ==
    /\ get_param_call.call = "save_param"
    /\ get_param_call.updated # {}
    /\ get_param_call.updated # get_param_call.names
    /\ \E p \in job_param : p.job # get_param_call.job
    /\ \E p \in job_param :
          /\ p.job = get_param_call.job
          /\ p.value = <<"str", "3">>

(***************************************************************************)
(* CHUNKED ITERATION: queryset_iter.                                       *)
(*                                                                         *)
(* The queryset is the sequence of its rows in its order; the rows do not  *)
(* change while the generator runs.  A step is one turn of the loop, taken *)
(* when the consumer asks for the next chunk.                              *)
(***************************************************************************)
\* Most rows of the queryset.
MaxQuerysetRows == 4

\* Largest chunk_size.
MaxChunkSize == 3

\* The querysets: the rows 1..n in some order, n up to MaxQuerysetRows.
Querysets == UNION {Perms(1..n) : n \in 0..MaxQuerysetRows}

\* A slip: the slice takes the row at offset + chunk_size too.
queryset_slice_inclusive(queryset, offset, chunk_size) ==
    SubSeq(queryset, offset + 1,
           IF offset + chunk_size + 1 < Len(queryset)
           THEN offset + chunk_size + 1 ELSE Len(queryset))

\* list(queryset[offset:offset + chunk_size].iterator())
queryset_slice(queryset, offset, chunk_size) ==
    SubSeq(queryset, offset + 1,
           IF offset + chunk_size < Len(queryset)
           THEN offset + chunk_size ELSE Len(queryset))

StartQuerysetIter ==
    /\ iter_queryset \in Querysets
    /\ iter_chunk_size \in 1..MaxChunkSize
    /\ iter_offset = 0
    /\ iter_chunks = <<>>
    /\ iter_state = "running"

IdleQuerysetIter ==
    /\ iter_queryset = <<>>
    /\ iter_chunk_size = 1
    /\ iter_offset = 0
    /\ iter_chunks = <<>>
    /\ iter_state = None

\* The chunk is not empty: it is yielded and the offset moves on.
QuerysetIterYield ==
    /\ iter_state = "running"
    /\ LET chunk == queryset_slice(iter_queryset, iter_offset,
                                   iter_chunk_size)
       IN  /\ Len(chunk) # 0
           /\ iter_chunks' = Append(iter_chunks, chunk)
           /\ iter_offset' = iter_offset + iter_chunk_size
    /\ UNCHANGED <<iter_queryset, iter_chunk_size, iter_state,
                   frameQuerysetIter>>

\* The chunk is empty: raise StopIteration.
QuerysetIterStop ==
    /\ iter_state = "running"
    /\ Len(queryset_slice(iter_queryset, iter_offset, iter_chunk_size)) = 0
    /\ iter_state' = "stopped"
    /\ UNCHANGED <<iter_queryset, iter_chunk_size, iter_offset, iter_chunks,
                   frameQuerysetIter>>

NextQuerysetIter ==
    \/ QuerysetIterYield
    \/ QuerysetIterStop

(***************************************************************************)
(* Claims on queryset_iter.                                                *)
(***************************************************************************)
\* ceil(n / chunk_size)
CeilDiv(n, chunk_size) == (n + chunk_size - 1) \div chunk_size

\* Every chunk yielded has between 1 and chunk_size rows.
ChunksAreBounded ==
    \A i \in 1..Len(iter_chunks) :
        /\ Len(iter_chunks[i]) >= 1
        /\ Len(iter_chunks[i]) <= iter_chunk_size

\* The chunks yielded so far are the start of the queryset.
ChunksArePrefix ==
    LET rows == Concat(iter_chunks)
    IN  /\ Len(rows) <= Len(iter_queryset)
        /\ rows = SubSeq(iter_queryset, 1, Len(rows))

\* Once stopped, the chunks are the whole queryset in ceil(n / chunk_size)
\* chunks.
StoppedWithAll ==
    iter_state = "stopped" =>
        /\ Len(iter_chunks) = CeilDiv(Len(iter_queryset), iter_chunk_size)
        /\ Concat(iter_chunks) = iter_queryset

\* C28: for a queryset of n rows and chunk_size >= 1, queryset_iter stops
\* after yielding ceil(n / chunk_size) chunks; every chunk is non-empty and
\* has at most chunk_size rows, and the chunks in yield order concatenate
\* to the queryset in its order.
C28_QuerysetIterChunks ==
    /\ [] (ChunksAreBounded /\ ChunksArePrefix /\ StoppedWithAll)
    /\ <> (iter_state = "stopped")

\* C28 witness: three rows in chunks of two were yielded as a chunk of two
\* and a chunk of one, and the generator stopped.
C28_Witness ==
    /\ iter_state = "stopped"
    /\ Len(iter_queryset) = 3
    /\ iter_chunk_size = 2
    /\ Len(iter_chunks) = 2
    /\ Len(iter_chunks[2]) = 1

(***************************************************************************)
(* SCENARIO EXPORT: get_gmfs_scenario.                                     *)
(*                                                                         *)
(* scenario_site gives the location <<lon, lat>> of every hazard site;     *)
(* scenario_gmf_data holds, for every site, the gmf_data row of one imt    *)
(* of the output: its ground motion values (in tenths of g) and the ids of *)
(* the ruptures they belong to, in the order they were stored.             *)
(***************************************************************************)
HazardSiteIds == {1, 2}

ScenarioLocations == {<<0, 0>>, <<1, 0>>}

ScenarioRuptureIds == {1, 2}

GmvValues == {1, 2, 3}

\* The rows a site may have.
GmfDataRows ==
    {[gmvs |-> gmvs, rupture_ids |-> rupture_ids] :
        gmvs \in [1..2 -> GmvValues], rupture_ids \in Perms(ScenarioRuptureIds)}

\* gmv = dict(zip(rupture_ids, gmvs)); [gmv[r] for r in sorted(rupture_ids)]
gmvs_by_rupture(row) ==
    [k \in 1..Len(row.rupture_ids) |->
        row.gmvs[CHOOSE j \in 1..Len(row.rupture_ids) :
                     row.rupture_ids[j] = k]]

\* _get_gmf: GROUP BY site_id ORDER BY site_id
get_gmf(data_rows) ==
    [site_id \in DOMAIN data_rows |->
        [site_id |-> site_id, gmvs |-> gmvs_by_rupture(data_rows[site_id])]]

\* _GroundMotionFieldNode.__lt__: self.location < other.location
node_lt(node, other) ==
    \/ node.location[1] < other.location[1]
    \/ node.location[1] = other.location[1]
           /\ node.location[2] < other.location[2]

\* nodes[i]: the nodes of realization i, appended site after site
nodes_of_realization(site, data_rows, i) ==
    LET rows == get_gmf(data_rows)
    IN  [k \in 1..Len(rows) |->
            [gmv |-> rows[k].gmvs[i], location |-> site[rows[k].site_id]]]

\* sorted(gmf_nodes, key=operator.attrgetter('gmv')): a stable sort
RECURSIVE sorted_by_gmv(_)
sorted_by_gmv(gmf_nodes) ==
    IF gmf_nodes = <<>>
    THEN <<>>
    ELSE LET k == CHOOSE k \in 1..Len(gmf_nodes) :
                      /\ \A j \in 1..Len(gmf_nodes) :
                            gmf_nodes[k].gmv <= gmf_nodes[j].gmv
                      /\ \A j \in 1..(k - 1) :
                            gmf_nodes[j].gmv > gmf_nodes[k].gmv
         IN  <<gmf_nodes[k]>> \o
                 sorted_by_gmv(SubSeq(gmf_nodes, 1, k - 1)
                                   \o SubSeq(gmf_nodes, k + 1, Len(gmf_nodes)))

\* get_gmfs_scenario(output, imt): the nodes of the field of every
\* realization
get_gmfs_scenario(site, data_rows) ==
    [i \in 1..Cardinality(ScenarioRuptureIds) |->
        sorted_by_gmv(nodes_of_realization(site, data_rows, i))]

StartScenario ==
    /\ scenario_site \in {site \in [1..2 -> ScenarioLocations] :
                             site[1] # site[2]}
    /\ scenario_gmf_data \in [1..2 -> GmfDataRows]
    /\ scenario_call = NoCall

IdleScenario ==
    /\ scenario_site = <<>>
    /\ scenario_gmf_data = <<>>
    /\ scenario_call = NoCall

\* list(get_gmfs_scenario(output, imt))
GetGmfsScenario ==
    /\ scenario_call' =
           [call |-> "get_gmfs_scenario",
            yielded |-> get_gmfs_scenario(scenario_site, scenario_gmf_data)]
    /\ UNCHANGED <<scenario_site, scenario_gmf_data, frameScenario>>

NextScenario == GetGmfsScenario

(***************************************************************************)
(* Claims on the scenario export.                                          *)
(***************************************************************************)
\* C29: every field yielded by get_gmfs_scenario has its nodes ordered by
\* their location.  Violated: the nodes are sorted by their ground motion
\* value.
C29_ScenarioNodesByLocation ==
    scenario_call.call = "get_gmfs_scenario" =>
        \A i \in DOMAIN scenario_call.yielded :
            LET gmf_nodes == scenario_call.yielded[i]
            IN  \A j, k \in DOMAIN gmf_nodes :
                    j < k => node_lt(gmf_nodes[j], gmf_nodes[k])

\* A field was yielded with the node of the eastern site first, because
\* its ground motion value is the smaller one.
ScenarioNodesByGmv ==
    /\ scenario_call.call = "get_gmfs_scenario"
    /\ \E i \in DOMAIN scenario_call.yielded :
          LET gmf_nodes == scenario_call.yielded[i]
          IN  /\ node_lt(gmf_nodes[2], gmf_nodes[1])
              /\ gmf_nodes[1].gmv < gmf_nodes[2].gmv

(***************************************************************************)
(* HAZARD CURVE XML WRITER: HazardCurveXMLWriter.                          *)
(*                                                                         *)
(* result_list_tag is the lxml tree under <HazardResult>: the sequence of  *)
(* its elements in the order of creation, each with its tag, the index of  *)
(* its parent (0 for <HazardResult>) and its text or IDmodel attribute.    *)
(* A text stands for the values it is joined from.  curves_per_iml and     *)
(* curves_per_model_id map a key to the index of an element.  write_calls  *)
(* keeps the calls of write; nrml_file is Nothing until close writes the   *)
(* tree to it.                                                             *)
(***************************************************************************)
\* Most calls of write.
MaxWrites == 3

\* shapes.Site(longitude, latitude)
CurvePoints == {<<-122, 37>>, <<-121, 38>>}

\* The dictionaries passed to write, with the keys that tell curves apart.
CurveValues ==
    [IDmodel : {"A", "B"},
     IMLValues : {<<5, 6>>, <<7, 8>>},
     Values : {<<1, 2>>, <<3, 4>>}]

\* etree.SubElement(parent, tag), with its text or attribute
SubElement(tree, parent, tag, text) ==
    Append(tree, [tag |-> tag, parent |-> parent, text |-> text])

\* HazardCurveXMLWriter._add_curve_to_proper_set(point, values, values_tag)
add_curve_to_proper_set(tree, per_iml, point, values, values_tag) ==
    IF values.IMLValues \in DOMAIN per_iml
    THEN [tree |-> tree, curves_per_iml |-> per_iml]
    ELSE LET list_tag == Len(tree) + 1
             t1 == SubElement(tree, values_tag, "HazardCurve", <<>>)
             t2 == SubElement(t1, list_tag, "pos", point)
             t3 == SubElement(t2, list_tag, "Values", values.Values)
             t4 == SubElement(t3, values_tag, "IMLValues", values.IMLValues)
         IN  [tree |-> t4,
              curves_per_iml |-> per_iml @@ (values.IMLValues :> list_tag)]

\* HazardCurveXMLWriter.write(point, values), up to the call of
\* _add_curve_to_proper_set: the tree, the dictionary and list_tag
write_list_tag(tree, per_model_id, values) ==
    IF values.IDmodel \in DOMAIN per_model_id
    THEN [tree |-> tree, curves_per_model_id |-> per_model_id,
          list_tag |-> per_model_id[values.IDmodel]]
    ELSE LET config_tag == Len(tree) + 1
             list_tag == Len(tree) + 2
             HazardProcessing_tag == Len(tree) + 3
             values_tag == Len(tree) + 5
             t1 == SubElement(tree, 0, "Config", <<>>)
             t2 == SubElement(t1, 0, "HazardCurveList", <<>>)
             t3 == SubElement(t2, config_tag, "HazardProcessing",
                              values.IDmodel)
             t4 == SubElement(t3, HazardProcessing_tag, "IMT", <<>>)
             t5 == SubElement(t4, config_tag, "Values", <<>>)
         IN  [tree |-> t5,
              curves_per_model_id |->
                  per_model_id @@ (values.IDmodel :> values_tag),
              list_tag |-> list_tag]

StartNrml ==
    /\ result_list_tag = <<>>
    /\ curves_per_iml = <<>>
    /\ curves_per_model_id = <<>>
    /\ write_calls = <<>>
    /\ nrml_file = Nothing

IdleNrml ==
    /\ result_list_tag = <<>>
    /\ curves_per_iml = <<>>
    /\ curves_per_model_id = <<>>
    /\ write_calls = <<>>
    /\ nrml_file = Nothing

\* writer.write(point, values)
Write(point, values) ==
    /\ nrml_file = Nothing
    /\ Len(write_calls) < MaxWrites
    /\ LET w == write_list_tag(result_list_tag, curves_per_model_id, values)
           a == add_curve_to_proper_set(w.tree, curves_per_iml, point,
                                        values, w.list_tag)
       IN  /\ result_list_tag' = a.tree
           /\ curves_per_iml' = a.curves_per_iml
           /\ curves_per_model_id' = w.curves_per_model_id
    /\ write_calls' = Append(write_calls, [point |-> point, values |-> values])
    /\ UNCHANGED <<nrml_file, frameNrml>>

\* writer.close(): RuntimeError without a curve, else the tree is written.
Close ==
    /\ nrml_file = Nothing
    /\ nrml_file' = IF Len(result_list_tag) = 0
                    THEN Some("RuntimeError")
                    ELSE Some(result_list_tag)
    /\ UNCHANGED <<result_list_tag, curves_per_iml, curves_per_model_id,
                   write_calls, frameNrml>>

NextNrml ==
    \/ \E point \in CurvePoints, values \in CurveValues : Write(point, values)
    \/ Close

(***************************************************************************)
(* Claims on the hazard curve XML writer.                                  *)
(***************************************************************************)
\* The document was written.
DocumentWritten == nrml_file # Nothing /\ nrml_file # Some("RuntimeError")

\* The indices of the <HazardCurve> elements of a tree.
HazardCurveTags(tree) == {i \in DOMAIN tree : tree[i].tag = "HazardCurve"}

\* The IDmodel of the group an element is placed under: of the <Config>
\* that holds the group, or that was created with it.
ModelOfGroup(tree, i) ==
    LET config_tag == IF tree[i].tag = "HazardCurveList"
                      THEN i - 1 ELSE tree[i].parent
        processing == CHOOSE j \in DOMAIN tree :
                          /\ tree[j].tag = "HazardProcessing"
                          /\ tree[j].parent = config_tag
    IN  tree[processing].text

\* Element i of the tree is the curve of the call: its position, its
\* values, under the group of its IDmodel.
IsCurveOf(tree, i, call) ==
    /\ tree[i].tag = "HazardCurve"
    /\ \E j \in DOMAIN tree :
          /\ tree[j].parent = i /\ tree[j].tag = "pos"
          /\ tree[j].text = call.point
    /\ \E j \in DOMAIN tree :
          /\ tree[j].parent = i /\ tree[j].tag = "Values"
          /\ tree[j].text = call.values.Values
    /\ ModelOfGroup(tree, tree[i].parent) = call.values.IDmodel

\* C30: after any sequence of write calls and close, the document holds
\* one <HazardCurve> for every call of write, with the position and the
\* values of the call, under the group of its IDmodel.  Violated: a curve
\* whose IML values were written before is dropped.
C30_WriterLosesNoCurve ==
    DocumentWritten =>
        LET tree == nrml_file[1]
        IN  /\ Cardinality(HazardCurveTags(tree)) = Len(write_calls)
            /\ \A c \in DOMAIN write_calls :
                  \E i \in DOMAIN tree : IsCurveOf(tree, i, write_calls[c])

\* Two curves with the same IML values were written and closed: the
\* document holds one <HazardCurve>.
SecondCurveDropped ==
    /\ DocumentWritten
    /\ Len(write_calls) = 2
    /\ write_calls[1].values.IMLValues = write_calls[2].values.IMLValues
    /\ write_calls[1].point # write_calls[2].point
    /\ Cardinality(HazardCurveTags(nrml_file[1])) = 1

\* Curves that differ in their IML values are all in the document.
DistinctImlsAllWritten ==
    (/\ DocumentWritten
     /\ \A c, d \in DOMAIN write_calls :
           c # d => write_calls[c].values.IMLValues
                        # write_calls[d].values.IMLValues)
        => /\ Cardinality(HazardCurveTags(nrml_file[1])) = Len(write_calls)
           /\ \A c \in DOMAIN write_calls :
                 \E i \in DOMAIN nrml_file[1] :
                     IsCurveOf(nrml_file[1], i, write_calls[c])

(***************************************************************************)
(* The specifications.                                                     *)
(***************************************************************************)
InitCurves ==
    /\ IdleCurves
    /\ IdleBindi
    /\ IdleHash
    /\ IdleAssets
    /\ IdleGmf
    /\ IdleMean
    /\ IdleParam
    /\ IdleRisk
    /\ IdleRupture
    /\ IdleValue
    /\ IdleFractions
    /\ IdleCompare
    /\ IdleWriter
    /\ IdleImt
    /\ IdleSaveParam
    /\ IdleQuerysetIter
    /\ IdleScenario
    /\ IdleNrml

SpecCurves == InitCurves /\ [][NextCurves]_vars

InitBindi ==
    /\ StartBindi
    /\ IdleCurves
    /\ IdleHash
    /\ IdleAssets
    /\ IdleGmf
    /\ IdleMean
    /\ IdleParam
    /\ IdleRisk
    /\ IdleRupture
    /\ IdleValue
    /\ IdleFractions
    /\ IdleCompare
    /\ IdleWriter
    /\ IdleImt
    /\ IdleSaveParam
    /\ IdleQuerysetIter
    /\ IdleScenario
    /\ IdleNrml

InitHash ==
    /\ StartHash
    /\ IdleCurves
    /\ IdleBindi
    /\ IdleAssets
    /\ IdleGmf
    /\ IdleMean
    /\ IdleParam
    /\ IdleRisk
    /\ IdleRupture
    /\ IdleValue
    /\ IdleFractions
    /\ IdleCompare
    /\ IdleWriter
    /\ IdleImt
    /\ IdleSaveParam
    /\ IdleQuerysetIter
    /\ IdleScenario
    /\ IdleNrml

SpecHash == InitHash /\ [][NextHash]_vars

InitAssets ==
    /\ StartAssets
    /\ IdleCurves
    /\ IdleBindi
    /\ IdleHash
    /\ IdleGmf
    /\ IdleMean
    /\ IdleParam
    /\ IdleRisk
    /\ IdleRupture
    /\ IdleValue
    /\ IdleFractions
    /\ IdleCompare
    /\ IdleWriter
    /\ IdleImt
    /\ IdleSaveParam
    /\ IdleQuerysetIter
    /\ IdleScenario
    /\ IdleNrml

SpecAssets == InitAssets /\ [][NextAssets]_vars

InitGmf ==
    /\ StartGmf
    /\ IdleCurves
    /\ IdleBindi
    /\ IdleHash
    /\ IdleAssets
    /\ IdleMean
    /\ IdleParam
    /\ IdleRisk
    /\ IdleRupture
    /\ IdleValue
    /\ IdleFractions
    /\ IdleCompare
    /\ IdleWriter
    /\ IdleImt
    /\ IdleSaveParam
    /\ IdleQuerysetIter
    /\ IdleScenario
    /\ IdleNrml

SpecGmf == InitGmf /\ [][NextGmf]_vars

SpecGmfExport == InitGmf /\ [][NextGmfExport]_vars

SpecBindi == InitBindi /\ [][NextBindi]_vars

InitMean ==
    /\ StartMean
    /\ IdleCurves
    /\ IdleHash
    /\ IdleAssets
    /\ IdleGmf
    /\ IdleParam
    /\ IdleRisk
    /\ IdleRupture
    /\ IdleValue
    /\ IdleFractions
    /\ IdleCompare
    /\ IdleWriter
    /\ IdleImt
    /\ IdleSaveParam
    /\ IdleQuerysetIter
    /\ IdleScenario
    /\ IdleNrml

SpecBindiMean == InitMean /\ [][NextMean]_vars

InitParam ==
    /\ StartParam
    /\ IdleCurves
    /\ IdleBindi
    /\ IdleHash
    /\ IdleAssets
    /\ IdleGmf
    /\ IdleMean
    /\ IdleRisk
    /\ IdleRupture
    /\ IdleValue
    /\ IdleFractions
    /\ IdleCompare
    /\ IdleWriter
    /\ IdleImt
    /\ IdleSaveParam
    /\ IdleQuerysetIter
    /\ IdleScenario
    /\ IdleNrml

SpecParam == InitParam /\ [][NextParam]_vars

InitRisk ==
    /\ StartRisk
    /\ IdleCurves
    /\ IdleBindi
    /\ IdleHash
    /\ IdleAssets
    /\ IdleGmf
    /\ IdleMean
    /\ IdleParam
    /\ IdleRupture
    /\ IdleValue
    /\ IdleFractions
    /\ IdleCompare
    /\ IdleWriter
    /\ IdleImt
    /\ IdleSaveParam
    /\ IdleQuerysetIter
    /\ IdleScenario
    /\ IdleNrml

SpecRisk == InitRisk /\ [][NextRisk]_vars

InitRupture ==
    /\ StartRupture
    /\ IdleCurves
    /\ IdleBindi
    /\ IdleHash
    /\ IdleAssets
    /\ IdleGmf
    /\ IdleMean
    /\ IdleParam
    /\ IdleRisk
    /\ IdleValue
    /\ IdleFractions
    /\ IdleCompare
    /\ IdleWriter
    /\ IdleImt
    /\ IdleSaveParam
    /\ IdleQuerysetIter
    /\ IdleScenario
    /\ IdleNrml

SpecRupture == InitRupture /\ [][NextRupture]_vars

InitValue ==
    /\ StartValue
    /\ IdleCurves
    /\ IdleBindi
    /\ IdleHash
    /\ IdleAssets
    /\ IdleGmf
    /\ IdleMean
    /\ IdleParam
    /\ IdleRisk
    /\ IdleRupture
    /\ IdleFractions
    /\ IdleCompare
    /\ IdleWriter
    /\ IdleImt
    /\ IdleSaveParam
    /\ IdleQuerysetIter
    /\ IdleScenario
    /\ IdleNrml

SpecValue == InitValue /\ [][NextValue]_vars

InitFractions ==
    /\ StartFractions
    /\ IdleCurves
    /\ IdleBindi
    /\ IdleHash
    /\ IdleAssets
    /\ IdleGmf
    /\ IdleMean
    /\ IdleParam
    /\ IdleRisk
    /\ IdleRupture
    /\ IdleValue
    /\ IdleCompare
    /\ IdleWriter
    /\ IdleImt
    /\ IdleSaveParam
    /\ IdleQuerysetIter
    /\ IdleScenario
    /\ IdleNrml

SpecFractions == InitFractions /\ [][NextFractions]_vars

InitCompare ==
    /\ StartCompare
    /\ IdleCurves
    /\ IdleBindi
    /\ IdleHash
    /\ IdleAssets
    /\ IdleGmf
    /\ IdleMean
    /\ IdleParam
    /\ IdleRisk
    /\ IdleRupture
    /\ IdleValue
    /\ IdleFractions
    /\ IdleWriter
    /\ IdleImt
    /\ IdleSaveParam
    /\ IdleQuerysetIter
    /\ IdleScenario
    /\ IdleNrml

SpecCompare == InitCompare /\ [][NextCompare]_vars

InitWriter ==
    /\ StartWriter
    /\ IdleCurves
    /\ IdleBindi
    /\ IdleHash
    /\ IdleAssets
    /\ IdleGmf
    /\ IdleMean
    /\ IdleParam
    /\ IdleRisk
    /\ IdleRupture
    /\ IdleValue
    /\ IdleFractions
    /\ IdleCompare
    /\ IdleImt
    /\ IdleSaveParam
    /\ IdleQuerysetIter
    /\ IdleScenario
    /\ IdleNrml

SpecWriter == InitWriter /\ [][NextWriter]_vars

InitImt ==
    /\ StartImt
    /\ IdleCurves
    /\ IdleBindi
    /\ IdleHash
    /\ IdleAssets
    /\ IdleGmf
    /\ IdleMean
    /\ IdleParam
    /\ IdleRisk
    /\ IdleRupture
    /\ IdleValue
    /\ IdleFractions
    /\ IdleCompare
    /\ IdleWriter
    /\ IdleSaveParam
    /\ IdleQuerysetIter
    /\ IdleScenario
    /\ IdleNrml

SpecImt == InitImt /\ [][NextImt]_vars

InitSaveParam ==
    /\ StartSaveParam
    /\ IdleCurves
    /\ IdleBindi
    /\ IdleHash
    /\ IdleAssets
    /\ IdleGmf
    /\ IdleMean
    /\ StartParam
    /\ IdleRisk
    /\ IdleRupture
    /\ IdleValue
    /\ IdleFractions
    /\ IdleCompare
    /\ IdleWriter
    /\ IdleImt
    /\ IdleQuerysetIter
    /\ IdleScenario
    /\ IdleNrml

SpecSaveParam == InitSaveParam /\ [][NextSaveParam]_vars

InitQuerysetIter ==
    /\ StartQuerysetIter
    /\ IdleCurves
    /\ IdleBindi
    /\ IdleHash
    /\ IdleAssets
    /\ IdleGmf
    /\ IdleMean
    /\ IdleParam
    /\ IdleRisk
    /\ IdleRupture
    /\ IdleValue
    /\ IdleFractions
    /\ IdleCompare
    /\ IdleWriter
    /\ IdleImt
    /\ IdleSaveParam
    /\ IdleScenario
    /\ IdleNrml

\* The consumer of the generator keeps asking for the next chunk.
SpecQuerysetIter ==
    InitQuerysetIter /\ [][NextQuerysetIter]_vars /\ WF_vars(NextQuerysetIter)

InitScenario ==
    /\ StartScenario
    /\ IdleCurves
    /\ IdleBindi
    /\ IdleHash
    /\ IdleAssets
    /\ IdleGmf
    /\ IdleMean
    /\ IdleParam
    /\ IdleRisk
    /\ IdleRupture
    /\ IdleValue
    /\ IdleFractions
    /\ IdleCompare
    /\ IdleWriter
    /\ IdleImt
    /\ IdleSaveParam
    /\ IdleQuerysetIter
    /\ IdleNrml

SpecScenario == InitScenario /\ [][NextScenario]_vars

InitNrml ==
    /\ StartNrml
    /\ IdleCurves
    /\ IdleBindi
    /\ IdleHash
    /\ IdleAssets
    /\ IdleGmf
    /\ IdleMean
    /\ IdleParam
    /\ IdleRisk
    /\ IdleRupture
    /\ IdleValue
    /\ IdleFractions
    /\ IdleCompare
    /\ IdleWriter
    /\ IdleImt
    /\ IdleSaveParam
    /\ IdleQuerysetIter
    /\ IdleScenario

SpecNrml == InitNrml /\ [][NextNrml]_vars

====
